---- MODULE Spec2Model ----
(***************************************************************************)
(* Model of the activity tracker (src/app/page.tsx), the food diary        *)
(* (src/app/food-diary/page.tsx) and the data-access layer                 *)
(* (src/lib/meals.ts).                                                     *)
(*                                                                         *)
(* Time.  A Date is an instant, counted in hours since                     *)
(* 2024-01-01T00:00Z (a Monday).  The viewer's zone is tz hours east of    *)
(* UTC, so the local calendar fields of an instant t are those of t + tz.  *)
(* A date key "YYYY-MM-DD" is the number of its calendar day (day 0 is     *)
(* 2024-01-01); the lexicographic order of the keys is the order of the    *)
(* day numbers.                                                            *)
(***************************************************************************)
EXTENDS Integers, Sequences, FiniteSets, Bags, TLC

VARIABLES
    tz,                   \* hours east of UTC of the viewer's zone
    now,                  \* the instant `new Date()` returns
    activityRows,         \* useState<ActivityRow[]>: <<[id, completedDays]>>
    currentWeek,          \* useState<Date[]>: the seven displayed dates
    nextRowId,            \* Date.now() of the next added row
    edits,                \* number of user edits made so far
    isLoadingFromDB,      \* useState<boolean>
    deletes,              \* ids of the rows whose delete request is in flight
    selects,              \* number of calls of loadActivityRows awaiting rows
    apiKey,               \* process.env.NEXT_PUBLIC_GEMINI_API_KEY is set
    aiAnalysis,           \* useState<string>: the displayed weekly summary
    isGeneratingAnalysis, \* useState<boolean>
    weekCompleted,        \* useState<boolean>
    gen,                  \* the call of generateAIAnalysis: where it stands,
                          \* the rows its closure holds, how it went
    selectedDate,         \* food diary: useState<Date>
    storeMeals,           \* the rows of the table `meals` of the user
    storeSaved,           \* the rows of the table `saved_meals` of the user
    nextStoreId,          \* the id the store gives to the next inserted row
    meals,                \* useState<Meal[]>
    dailyTotals,          \* useState<DailyTotals[]>
    savedMeals,           \* useState<SavedMeal[]>
    isLoading,            \* useState<boolean>
    isSaving,             \* useState<boolean>
    isSavingTemplate,     \* useState<boolean>
    saveTemplateError,    \* useState<string | null>
    load,                 \* the call of the load effect: where it stands
    add,                  \* the call of handleAddMeal: where it stands
    tpl,                  \* the call of handleSaveAsTemplate: where it stands
    requests,             \* the write requests sent to the store, in order,
                          \* each with the form it was made from
    clicks,               \* number of clicks made on the form's buttons
    lastClick,            \* the button last clicked and what the click did
    isDeleting,           \* useState<string | null>: the meal being removed
    dels,                 \* the calls of handleDeleteMeal in flight: where each stands
    logged,               \* the messages of console.error of the food diary, in order
    mealForm,             \* useState<string> of calories, protein, carbs and fats
    isAnalyzingMeal,      \* useState<boolean>
    aiEstimateError,      \* useState<string | null>
    analyze,              \* the call of handleAnalyzeMeal: where it stands, how it went
    storeRows,            \* the ids of the rows of table activity_rows
    upserts,              \* the upserts of the save effect in flight: a bag of row ids
    savedDeps,            \* the dependencies the save effect last ran with
    removed,              \* the ids of the removed rows whose store delete succeeded
    picks,                \* number of dates picked in the diary
    issued,               \* number of read queries the diary has sent to the store
    shown,                \* the queries that meals and dailyTotals in memory came from
    input,                \* the argument a function of the code is called with
    output                \* what the call returned, once it has returned

loadVars == <<isLoadingFromDB, deletes, selects>>

saveVars == <<storeRows, upserts, savedDeps, removed>>

pageVars == <<tz, now, activityRows, currentWeek, nextRowId, edits, loadVars, saveVars>>

aiVars == <<apiKey, aiAnalysis, isGeneratingAnalysis, weekCompleted, gen>>

storeVars == <<storeMeals, storeSaved, nextStoreId>>

memoryVars == <<meals, dailyTotals, savedMeals>>

estimateVars == <<mealForm, isAnalyzingMeal, aiEstimateError, analyze>>

queryVars == <<picks, issued, shown>>

diaryVars ==
    <<selectedDate, storeVars, memoryVars, isLoading, isSaving, isSavingTemplate,
      saveTemplateError, load, add, tpl, requests, clicks, lastClick,
      isDeleting, dels, logged, estimateVars, queryVars>>

libVars == <<input, output>>

vars == <<pageVars, aiVars, diaryVars, libVars>>

-----------------------------------------------------------------------------
(* Bounds of the model *)

MaxRows == 2
MaxEdits == 2

\* the numbers of rows, and of completions in all, that the store may hold
\* when the page loads
LoadedRowCounts == 0 .. 2
LoadedCompletionCounts == 0 .. 2

\* zones of the viewer: west of UTC, UTC, east of UTC
TZOffsets == {-5, 0, 3}

\* the local calendar days `now` may fall on: Monday 2024-01-15 .. Sunday 2024-01-21
TodayDays == 14 .. 20

\* the days the rows loaded from the store may hold: the Sunday and the Monday
\* at each of the two week boundaries before today, and a day in mid-week
\* (Sun 2024-01-07, Mon 2024-01-08, Thu 2024-01-11, Sun 2024-01-14, Mon 2024-01-15)
HistoryDays == {6, 7, 10, 13, 14}

-----------------------------------------------------------------------------
(* Date arithmetic *)

\* the local calendar day of an instant
LocalDay(t) == (t + tz) \div 24

\* Date.prototype.getDay(): 0 = Sunday, 1 = Monday, ...
getDay(t) == (LocalDay(t) + 1) % 7

\* date.setDate(date.getDate() + n): n calendar days later, same local time
AddDays(t, n) == t + 24 * n

\* date.setHours(0, 0, 0, 0): local midnight of the instant's local day
LocalMidnight(t) == 24 * LocalDay(t) - tz

\* new Date("YYYY-MM-DD"): a date-only string is read as UTC midnight
ParseDateKey(key) == 24 * key

formatDateKey(date) == LocalDay(date)

\* a value already of the form YYYY-MM-DD is returned as it is; the rows in
\* memory hold only such values (loadActivityRows normalizes what it loads,
\* toggleActivityCompletion adds formatDateKey's result)
normalizeDateKey(value) == value

-----------------------------------------------------------------------------
(* Sequences *)

RECURSIVE FlatMapDays(_)
FlatMapDays(rows) ==
    IF rows = <<>> THEN <<>>
    ELSE Head(rows).completedDays \o FlatMapDays(Tail(rows))

RECURSIVE SumLengths(_, _)
SumLengths(rows, total) ==
    IF rows = <<>> THEN total
    ELSE SumLengths(Tail(rows), total + Len(Head(rows).completedDays))

Includes(seq, x) == \E i \in DOMAIN seq : seq[i] = x

FilterOut(seq, x) == SelectSeq(seq, LAMBDA y : y # x)

-----------------------------------------------------------------------------
(* Analytics of the activity page *)

getTotalActivities(rows) == SumLengths(rows, 0)

maxDaysToCheck == 365

\* one pass of the body of the for loop; done once the loop has hit `break`
StreakStep(st, normalizedDates) ==
    IF st.done THEN st
    ELSE IF formatDateKey(st.currentDate) \in normalizedDates
         THEN [st EXCEPT !.streak = @ + 1, !.currentDate = AddDays(@, -1)]
         ELSE [st EXCEPT !.done = TRUE]

\* the passes lo <= i < hi of the for loop, the range halved at each level
RECURSIVE StreakLoop(_, _, _, _)
StreakLoop(lo, hi, st, normalizedDates) ==
    IF st.done \/ hi <= lo THEN st
    ELSE IF hi = lo + 1 THEN StreakStep(st, normalizedDates)
    ELSE LET mid == (lo + hi) \div 2 IN
         StreakLoop(mid, hi, StreakLoop(lo, mid, st, normalizedDates), normalizedDates)

\* a streak that forgives a missing today: the walk starts at yesterday then
getCurrentStreak_GraceDay(rows) ==
    LET allCompletedDays == FlatMapDays(rows)
        normalizedDates ==
            {normalizeDateKey(allCompletedDays[i]) : i \in DOMAIN allCompletedDays}
        today == LocalMidnight(now)
        start == IF formatDateKey(today) \in normalizedDates THEN today
                 ELSE AddDays(today, -1)
    IN  StreakLoop(0, maxDaysToCheck,
                   [streak |-> 0, currentDate |-> start, done |-> FALSE],
                   normalizedDates).streak

\* a walk with an off-by-one bound: i <= maxDaysToCheck
getCurrentStreak_OneMore(rows) ==
    LET allCompletedDays == FlatMapDays(rows)
        normalizedDates ==
            {normalizeDateKey(allCompletedDays[i]) : i \in DOMAIN allCompletedDays}
    IN  StreakLoop(0, maxDaysToCheck + 1,
                   [streak |-> 0, currentDate |-> LocalMidnight(now), done |-> FALSE],
                   normalizedDates).streak

getCurrentStreak(rows) ==
    IF Len(rows) = 0 THEN 0
    ELSE LET allCompletedDays == FlatMapDays(rows) IN
         IF Len(allCompletedDays) = 0 THEN 0
         ELSE LET normalizedDates ==
                      {normalizeDateKey(allCompletedDays[i]) : i \in DOMAIN allCompletedDays}
                  today == LocalMidnight(now)
              IN  IF formatDateKey(today) \notin normalizedDates THEN 0
                  ELSE StreakLoop(0, maxDaysToCheck,
                                  [streak |-> 0, currentDate |-> today, done |-> FALSE],
                                  normalizedDates).streak

getWeekStartDate(date) ==
    LET dayOfWeek == getDay(date)
        daysToMonday == IF dayOfWeek = 0 THEN -6 ELSE 1 - dayOfWeek
    IN  AddDays(date, daysToMonday)

\* one pass of allCompletedDays.forEach: weekGroups[weekKey].push(dateStr);
\* the groups keep the order in which their keys were inserted
AddToWeekGroups(weekGroups, dateStr) ==
    LET date == ParseDateKey(dateStr)
        weekStart == getWeekStartDate(date)
        weekKey == formatDateKey(weekStart)
    IN  IF \E g \in DOMAIN weekGroups : weekGroups[g].week = weekKey
        THEN LET g == CHOOSE i \in DOMAIN weekGroups : weekGroups[i].week = weekKey
             IN  [weekGroups EXCEPT ![g].dates = Append(@, dateStr)]
        ELSE Append(weekGroups, [week |-> weekKey, dates |-> <<dateStr>>])

\* the pass of forEach for days[st.i]
ForEachStep(days, st) ==
    [i |-> st.i + 1, weekGroups |-> AddToWeekGroups(st.weekGroups, days[st.i])]

\* the next n passes of forEach, the number of passes halved at each level
RECURSIVE ForEachDay(_, _, _)
ForEachDay(days, n, st) ==
    IF n = 0 \/ st.i > Len(days) THEN st
    ELSE IF n = 1 THEN ForEachStep(days, st)
    ELSE ForEachDay(days, n - (n \div 2), ForEachDay(days, n \div 2, st))

GroupByWeek(allCompletedDays) ==
    ForEachDay(allCompletedDays, Len(allCompletedDays), [i |-> 1, weekGroups |-> <<>>]).weekGroups

\* insertion of a point into a list sorted by week
RECURSIVE InsertByWeek(_, _)
InsertByWeek(sorted, p) ==
    IF sorted = <<>> THEN <<p>>
    ELSE IF p.week < Head(sorted).week THEN <<p>> \o sorted
    ELSE <<Head(sorted)>> \o InsertByWeek(Tail(sorted), p)

RECURSIVE SortByWeek(_, _)
SortByWeek(points, sorted) ==
    IF points = <<>> THEN sorted
    ELSE SortByWeek(Tail(points), InsertByWeek(sorted, Head(points)))

getWeeklyTrendData(rows) ==
    IF Len(rows) = 0 THEN <<>>
    ELSE LET allCompletedDays == FlatMapDays(rows) IN
         IF Len(allCompletedDays) = 0 THEN <<>>
         ELSE LET weekGroups == GroupByWeek(allCompletedDays)
                  trendData == [g \in DOMAIN weekGroups |->
                                   [week |-> weekGroups[g].week,
                                    count |-> Len(weekGroups[g].dates)]]
              IN  SortByWeek(trendData, <<>>)

RECURSIVE SumCounts(_, _)
SumCounts(weeklyData, sum) ==
    IF weeklyData = <<>> THEN sum
    ELSE SumCounts(Tail(weeklyData), sum + Head(weeklyData).count)

\* Math.round(x) for x = num / den, den > 0: floor(x + 1/2)
RoundDiv(num, den) == (2 * num + den) \div (2 * den)

\* the average rounded to a whole number, as the "Average / week" tile does
getAverageActivitiesPerWeek_Whole(rows) ==
    LET weeklyData == getWeeklyTrendData(rows) IN
    IF Len(weeklyData) = 0 THEN 0
    ELSE 10 * RoundDiv(SumCounts(weeklyData, 0), Len(weeklyData))

\* the result in tenths: Math.round(average * 10) / 10
getAverageActivitiesPerWeek(rows) ==
    LET weeklyData == getWeeklyTrendData(rows) IN
    IF Len(weeklyData) = 0 THEN 0
    ELSE LET totalActivities == SumCounts(weeklyData, 0)
         IN  RoundDiv(totalActivities * 10, Len(weeklyData))

\* the tile comparing with the calendar week before the last one, empty or not
ChangeFromLastWeek_Calendar(rows) ==
    LET data == getWeeklyTrendData(rows) IN
    IF Len(data) < 2 THEN [sentinel |-> TRUE, diff |-> 0]
    ELSE LET thisWeek == data[Len(data)].count
             lastWeek == IF data[Len(data) - 1].week = data[Len(data)].week - 7
                         THEN data[Len(data) - 1].count ELSE 0
         IN  [sentinel |-> FALSE, diff |-> thisWeek - lastWeek]

\* the "Change from last week" tile
ChangeFromLastWeek(rows) ==
    LET data == getWeeklyTrendData(rows) IN
    IF Len(data) < 2 THEN [sentinel |-> TRUE, diff |-> 0]
    ELSE LET thisWeek == data[Len(data)].count
             lastWeek == data[Len(data) - 1].count
         IN  [sentinel |-> FALSE, diff |-> thisWeek - lastWeek]

-----------------------------------------------------------------------------
(* The activity grid *)

\* the effect that initializes currentWeek
InitCurrentWeek ==
    LET today == now
        startOfWeek == AddDays(LocalMidnight(today), 1 - getDay(today))
    IN  [i \in 1 .. 7 |-> AddDays(startOfWeek, i - 1)]

toggleActivityCompletion_NeverRemoves(rows, rowId, date) ==
    LET dateStr == formatDateKey(date) IN
    [r \in DOMAIN rows |->
        IF rows[r].id = rowId
        THEN [rows[r] EXCEPT !.completedDays = Append(@, dateStr)]
        ELSE rows[r]]

toggleActivityCompletion(rows, rowId, date) ==
    LET dateStr == formatDateKey(date) IN
    [r \in DOMAIN rows |->
        IF rows[r].id = rowId
        THEN IF Includes(rows[r].completedDays, dateStr)
             THEN [rows[r] EXCEPT !.completedDays = FilterOut(@, dateStr)]
             ELSE [rows[r] EXCEPT !.completedDays = Append(@, dateStr)]
        ELSE rows[r]]

\* a click on an enabled day checkbox
Toggle ==
    /\ edits < MaxEdits
    /\ \E r \in DOMAIN activityRows, d \in DOMAIN currentWeek :
          LET date == currentWeek[d]
              isFutureDate == date > now
          IN  /\ ~isFutureDate
              /\ activityRows' = toggleActivityCompletion(activityRows, activityRows[r].id, date)
    /\ edits' = edits + 1
    /\ UNCHANGED <<tz, now, currentWeek, nextRowId, loadVars>>
    /\ UNCHANGED <<aiVars, diaryVars, libVars, saveVars>>

addNewActivityRow ==
    /\ edits < MaxEdits
    /\ Len(activityRows) < MaxRows
    /\ activityRows' = Append(activityRows, [id |-> nextRowId, completedDays |-> <<>>])
    /\ nextRowId' = nextRowId + 1
    /\ edits' = edits + 1
    /\ UNCHANGED <<tz, now, currentWeek, loadVars>>
    /\ UNCHANGED <<aiVars, diaryVars, libVars, saveVars>>

moveRowUp(rows, rowId) ==
    LET found == {i \in DOMAIN rows : rows[i].id = rowId}
        \* findIndex, counted from 1; 0 when no row has the id
        index == IF found = {} THEN 0 ELSE CHOOSE i \in found : \A j \in found : i <= j
    IN  IF index <= 1 THEN rows
        ELSE [rows EXCEPT ![index - 1] = rows[index], ![index] = rows[index - 1]]

moveRowDown_Wraps(rows, rowId) ==
    LET found == {i \in DOMAIN rows : rows[i].id = rowId}
        index == IF found = {} THEN 0 ELSE CHOOSE i \in found : \A j \in found : i <= j
    IN  IF index = 0 THEN rows
        ELSE IF index >= Len(rows) THEN <<rows[index]>> \o SubSeq(rows, 1, Len(rows) - 1)
        ELSE [rows EXCEPT ![index + 1] = rows[index], ![index] = rows[index + 1]]

moveRowDown(rows, rowId) ==
    LET found == {i \in DOMAIN rows : rows[i].id = rowId}
        index == IF found = {} THEN 0 ELSE CHOOSE i \in found : \A j \in found : i <= j
    IN  IF index = 0 \/ index >= Len(rows) THEN rows
        ELSE [rows EXCEPT ![index + 1] = rows[index], ![index] = rows[index + 1]]

\* a click on "Move up" in the menu of a row; on the first row the click
\* calls nothing
MoveUp ==
    /\ edits < MaxEdits
    /\ \E index \in DOMAIN activityRows :
          activityRows' = IF index = 1 THEN activityRows
                          ELSE moveRowUp(activityRows, activityRows[index].id)
    /\ edits' = edits + 1
    /\ UNCHANGED <<tz, now, currentWeek, nextRowId, loadVars>>
    /\ UNCHANGED <<aiVars, diaryVars, libVars, saveVars>>

\* a click on "Move down" in the menu of a row; on the last row the click
\* calls nothing
MoveDown ==
    /\ edits < MaxEdits
    /\ \E index \in DOMAIN activityRows :
          activityRows' = IF index = Len(activityRows) THEN activityRows
                          ELSE moveRowDown(activityRows, activityRows[index].id)
    /\ edits' = edits + 1
    /\ UNCHANGED <<tz, now, currentWeek, nextRowId, loadVars>>
    /\ UNCHANGED <<aiVars, diaryVars, libVars, saveVars>>

\* deleteActivityRow up to its await: the row leaves memory and the delete
\* request is sent
deleteActivityRow ==
    /\ edits < MaxEdits
    /\ \E index \in DOMAIN activityRows :
          LET rowId == activityRows[index].id IN
          /\ activityRows' = SelectSeq(activityRows, LAMBDA row : row.id # rowId)
          /\ deletes' = deletes \cup {rowId}
    /\ edits' = edits + 1
    /\ UNCHANGED <<tz, now, currentWeek, nextRowId, isLoadingFromDB, selects>>
    /\ UNCHANGED <<aiVars, diaryVars, libVars, saveVars>>

\* the delete request resolves; with an error, loadActivityRows is called
\* and runs up to its await
DeleteReturns ==
    /\ \E rowId \in deletes :
          /\ deletes' = deletes \ {rowId}
          /\ \/ /\ storeRows' = storeRows \ {rowId}
                /\ removed' = removed \cup {rowId}
                /\ UNCHANGED <<isLoadingFromDB, selects>>
             \/ /\ isLoadingFromDB' = TRUE
                /\ selects' = selects + 1
                /\ UNCHANGED <<storeRows, removed>>
    /\ UNCHANGED <<tz, now, activityRows, currentWeek, nextRowId, edits, upserts, savedDeps>>
    /\ UNCHANGED <<aiVars, diaryVars, libVars>>

-----------------------------------------------------------------------------
(* The rows loaded from the store *)

\* the sequences of at most n distinct elements of S, in every order
RECURSIVE SeqsNoRep(_, _)
SeqsNoRep(S, n) ==
    IF n = 0 THEN {<<>>}
    ELSE LET shorter == SeqsNoRep(S, n - 1) IN
         shorter \cup {Append(s, d) : s \in {q \in shorter : Len(q) = n - 1},
                                      d \in S}

NoRepeat(seq) == \A i, j \in DOMAIN seq : i # j => seq[i] # seq[j]

Max(S) == CHOOSE x \in S : \A y \in S : y <= x

\* the completedDays of k rows holding at most budget completions in all
RECURSIVE Histories(_, _)
Histories(k, budget) ==
    IF k = 0 THEN {<<>>}
    ELSE UNION {{<<s>> \o h : h \in Histories(k - 1, budget - Len(s))} :
                   s \in {q \in SeqsNoRep(HistoryDays, budget) : NoRepeat(q)}}

\* an unbroken run of len days whose last day is `last`
RunOfDays(last, len) == [i \in 1 .. len |-> last - len + i]

RunLengths == {10, maxDaysToCheck, maxDaysToCheck + 1}

RowsOf(history) == [r \in DOMAIN history |-> [id |-> r, completedDays |-> history[r]]]

\* what loadActivityRows put in memory: a few completions of the last weeks
LoadedRows ==
    {RowsOf(h) : h \in UNION {Histories(k, Max(LoadedCompletionCounts)) : k \in LoadedRowCounts}}

\* what loadActivityRows put in memory: one row completed on every day of a
\* long run that ends today or yesterday
LoadedRuns ==
    {RowsOf(<<RunOfDays(LocalDay(now) - e, len)>>) : e \in {0, 1}, len \in RunLengths}

InitPage(loaded, days) ==
    /\ tz \in TZOffsets
    /\ \E d \in days : now = 24 * d + 12 - tz
    /\ activityRows \in loaded
    /\ currentWeek = InitCurrentWeek
    /\ nextRowId = Max(LoadedRowCounts) + 1
    /\ edits = 0
    /\ isLoadingFromDB = FALSE
    /\ deletes = {}
    /\ selects = 0
    /\ storeRows = {activityRows[r].id : r \in DOMAIN activityRows}
    /\ upserts = EmptyBag
    /\ savedDeps = [activityRows |-> <<>>, isLoadingFromDB |-> TRUE]
    /\ removed = {}

\* the rows the table activity_rows may hold when they are read again: the
\* table is written by the save effect, and holds rows saved earlier
ReloadedRows ==
    {RowsOf(<<>>), RowsOf(<<<<13, 14>>>>), RowsOf(<<<<14>>, <<>>>>)}

\* the select of loadActivityRows resolves, with an error or with rows
LoadRowsReturns ==
    /\ selects > 0
    /\ selects' = selects - 1
    /\ \/ /\ activityRows' = <<>>
          /\ UNCHANGED isLoadingFromDB
       \/ \E data \in ReloadedRows :
             /\ activityRows' =
                   [r \in DOMAIN data |->
                       [id |-> data[r].id,
                        completedDays |-> [i \in DOMAIN data[r].completedDays |->
                                              normalizeDateKey(data[r].completedDays[i])]]]
             /\ isLoadingFromDB' = FALSE
    /\ UNCHANGED <<tz, now, currentWeek, nextRowId, edits, deletes>>
    /\ UNCHANGED <<aiVars, diaryVars, libVars, saveVars>>

\* the dependencies of the save effect
SaveDeps == [activityRows |-> activityRows, isLoadingFromDB |-> isLoadingFromDB]

\* a render changed the dependencies: the save effect runs before anything else
EffectPending == savedDeps # SaveDeps

\* the save effect: one upsert for every row, none of them awaited
SaveEffect ==
    /\ EffectPending
    /\ savedDeps' = SaveDeps
    /\ IF Len(activityRows) > 0 /\ ~isLoadingFromDB
       THEN upserts' = upserts (+) SetToBag({activityRows[r].id : r \in DOMAIN activityRows})
       ELSE UNCHANGED upserts
    /\ UNCHANGED <<tz, now, activityRows, currentWeek, nextRowId, edits, loadVars,
                   storeRows, removed>>
    /\ UNCHANGED <<aiVars, diaryVars, libVars>>

\* an upsert of the save effect completes: with onConflict 'id' the store
\* updates the row of that id, or inserts it when there is none; or it answers
\* with an error, which is logged
UpsertReturns ==
    /\ \E id \in BagToSet(upserts) :
          /\ upserts' = upserts (-) SetToBag({id})
          /\ \/ storeRows' = storeRows \cup {id}
             \/ UNCHANGED storeRows
    /\ UNCHANGED <<tz, now, activityRows, currentWeek, nextRowId, edits, loadVars,
                   savedDeps, removed>>
    /\ UNCHANGED <<aiVars, diaryVars, libVars>>

-----------------------------------------------------------------------------
(* The weekly summary *)

\* A text is a sequence of pieces: literal text, and numbers printed by a
\* template literal.  The empty string is the empty sequence.
Lit(s) == [kind |-> "lit", s |-> s, n |-> 0]
Num(n) == [kind |-> "num", s |-> "", n |-> n]
\* a number held in tenths (the average per week)
Dec(n) == [kind |-> "dec", s |-> "", n |-> n]

EmptyText == <<>>

\* a summary the model wrote, and one cached in weekly_analyses
AIText == <<Lit("(summary written by the model)")>>
CachedText == <<Lit("(summary cached for this week)")>>

getActiveDaysForWeek(rows) ==
    LET allCompletedDays == FlatMapDays(rows)
        uniqueDates == {normalizeDateKey(allCompletedDays[i]) : i \in DOMAIN allCompletedDays}
        weekDates == [i \in DOMAIN currentWeek |-> formatDateKey(currentWeek[i])]
        activeDaysInWeek == SelectSeq(weekDates, LAMBDA dateStr : dateStr \in uniqueDates)
    IN  Len(activeDaysInWeek)

\* the text set when no API key is configured
NoKeyFallback(rows) ==
    LET totalActivities == getTotalActivities(rows)
        activeDays == getActiveDaysForWeek(rows)
        averagePerWeek == getAverageActivitiesPerWeek(rows)
        streak == getCurrentStreak(rows)
    IN  <<Lit("This week you completed "), Num(totalActivities),
          Lit(" activities across "), Num(activeDays),
          Lit(" days. Your average is "), Dec(averagePerWeek),
          Lit(" activities per week. ")>>
        \o (IF streak > 0
            THEN <<Lit("You're on a "), Num(streak), Lit("-day streak!")>>
            ELSE <<>>)
        \o <<Lit(" "),
             Lit(IF activeDays >= 5 THEN "Great consistency!"
                                    ELSE "Keep building those healthy habits!")>>

CatchFallback_NoTotal(rows) ==
    LET activeDays == getActiveDaysForWeek(rows)
        streak == getCurrentStreak(rows)
    IN  <<Lit("This week you were active on "), Num(activeDays), Lit(" days. ")>>
        \o (IF streak > 0
            THEN <<Lit("You're on a "), Num(streak), Lit("-day streak! ")>>
            ELSE <<>>)
        \o <<Lit("Keep up the great work!")>>

\* the text set by the catch block
CatchFallback(rows) ==
    LET totalActivities == getTotalActivities(rows)
        activeDays == getActiveDaysForWeek(rows)
        streak == getCurrentStreak(rows)
    IN  <<Lit("This week you completed "), Num(totalActivities),
          Lit(" activities across "), Num(activeDays), Lit(" days. ")>>
        \o (IF streak > 0
            THEN <<Lit("You're on a "), Num(streak), Lit("-day streak! ")>>
            ELSE <<>>)
        \o <<Lit("Keep up the great work!")>>

\* no call of generateAIAnalysis has been made
GenIdle == [pc |-> "idle", rows |-> <<>>, outcome |-> "none", promise |-> "none"]

\* generateAIAnalysis has returned: completeWeek resumes after its await
GenDone(outcome) ==
    [pc |-> "done", rows |-> gen.rows, outcome |-> outcome, promise |-> "fulfilled"]

\* a click on the "Complete week" button: completeWeek calls
\* generateAIAnalysis, which runs up to its first await
completeWeek ==
    /\ ~(isGeneratingAnalysis \/ weekCompleted)
    /\ gen.pc = "idle"
    /\ IF ~apiKey
       THEN /\ aiAnalysis' = NoKeyFallback(activityRows)
            /\ gen' = [pc |-> "done", rows |-> activityRows, outcome |-> "nokey",
                       promise |-> "fulfilled"]
            /\ weekCompleted' = TRUE
            /\ UNCHANGED isGeneratingAnalysis
       ELSE /\ isGeneratingAnalysis' = TRUE
            /\ gen' = [pc |-> "generateContent", rows |-> activityRows,
                       outcome |-> "none", promise |-> "pending"]
            /\ UNCHANGED <<aiAnalysis, weekCompleted>>
    /\ UNCHANGED <<apiKey, pageVars, diaryVars, libVars>>

\* ai.models.generateContent resolves; response.text is a text, or is
\* missing or empty
GenerateContentReturns ==
    /\ gen.pc = "generateContent"
    /\ \E text \in {AIText, EmptyText} :
          LET analysis == text IN
          /\ aiAnalysis' = analysis
          /\ IF analysis # EmptyText
             THEN /\ gen' = [gen EXCEPT !.pc = "upsertCache", !.outcome = "text"]
                  /\ UNCHANGED <<isGeneratingAnalysis, weekCompleted>>
             ELSE /\ gen' = GenDone("notext")
                  /\ isGeneratingAnalysis' = FALSE
                  /\ weekCompleted' = TRUE
    /\ UNCHANGED <<apiKey, pageVars, diaryVars, libVars>>

\* ai.models.generateContent rejects: the catch block, then finally
GenerateContentThrows ==
    /\ gen.pc = "generateContent"
    /\ aiAnalysis' = CatchFallback(gen.rows)
    /\ isGeneratingAnalysis' = FALSE
    /\ gen' = GenDone("threw")
    /\ weekCompleted' = TRUE
    /\ UNCHANGED <<apiKey, pageVars, diaryVars, libVars>>

\* the upsert into weekly_analyses resolves, with or without an error
CacheUpsertReturns ==
    /\ gen.pc = "upsertCache"
    /\ isGeneratingAnalysis' = FALSE
    /\ gen' = GenDone(gen.outcome)
    /\ weekCompleted' = TRUE
    /\ UNCHANGED <<apiKey, aiAnalysis, pageVars, diaryVars, libVars>>

\* the summary is not requested
AIOff ==
    /\ apiKey = FALSE
    /\ aiAnalysis = EmptyText
    /\ isGeneratingAnalysis = FALSE
    /\ weekCompleted = FALSE
    /\ gen = GenIdle

\* the page is mounted: the cached summary, if any, is displayed
InitAI ==
    /\ apiKey \in BOOLEAN
    /\ aiAnalysis \in {EmptyText, CachedText}
    /\ isGeneratingAnalysis = FALSE
    /\ weekCompleted = FALSE
    /\ gen = GenIdle

-----------------------------------------------------------------------------
(* Food diary: text fields and numbers *)

\* A field of the form holds a string, written as the sequence of its
\* characters.  The characters of the model are digits, sign, dot, comma,
\* blank and letters; exponents and radix prefixes are left out.
DigitChars == <<"0", "1", "2", "3", "4", "5", "6", "7", "8", "9">>

IsDigit(c) == \E i \in DOMAIN DigitChars : DigitChars[i] = c

DigitValue(c) == (CHOOSE i \in DOMAIN DigitChars : DigitChars[i] = c) - 1

\* A JavaScript number: NaN, an infinity, or the finite decimal
\* (-1)^neg * mant / 10^scale
NaN == [kind |-> "nan", neg |-> FALSE, mant |-> 0, scale |-> 0]
Infinity(neg) == [kind |-> "inf", neg |-> neg, mant |-> 0, scale |-> 0]
Finite(neg, mant, scale) == [kind |-> "num", neg |-> neg, mant |-> mant, scale |-> scale]
Zero == Finite(FALSE, 0, 0)

RECURSIVE Pow10(_)
Pow10(n) == IF n = 0 THEN 1 ELSE 10 * Pow10(n - 1)

\* the value of a string of digits
RECURSIVE DigitsValue(_, _)
DigitsValue(str, acc) ==
    IF str = <<>> THEN acc
    ELSE DigitsValue(Tail(str), 10 * acc + DigitValue(Head(str)))

\* String.prototype.replace(',', '.'): the first comma only
ReplaceComma(value) ==
    LET commas == {i \in DOMAIN value : value[i] = ","} IN
    IF commas = {} THEN value
    ELSE [value EXCEPT ![CHOOSE i \in commas : \A j \in commas : i <= j] = "."]

\* String.prototype.trim()
RECURSIVE TrimStart(_)
TrimStart(str) ==
    IF str # <<>> /\ Head(str) = " " THEN TrimStart(Tail(str)) ELSE str

RECURSIVE TrimEnd(_)
TrimEnd(str) ==
    IF str # <<>> /\ str[Len(str)] = " "
    THEN TrimEnd(SubSeq(str, 1, Len(str) - 1))
    ELSE str

Trim(str) == TrimEnd(TrimStart(str))

\* Number(str) of a trimmed, non-empty string: an optional sign, then
\* "Infinity" or decimal digits with at most one dot and at least one digit
StringToNumber(str) ==
    LET signed == str[1] \in {"+", "-"}
        neg == str[1] = "-"
        body == IF signed THEN Tail(str) ELSE str
        dots == {i \in DOMAIN body : body[i] = "."}
        digits == SelectSeq(body, IsDigit)
        scale == IF dots = {} THEN 0 ELSE Len(body) - (CHOOSE i \in dots : TRUE)
    IN  IF body = <<"I", "n", "f", "i", "n", "i", "t", "y">> THEN Infinity(neg)
        ELSE IF \E i \in DOMAIN body : ~IsDigit(body[i]) /\ body[i] # "." THEN NaN
        ELSE IF Cardinality(dots) > 1 \/ digits = <<>> THEN NaN
        ELSE Finite(neg, DigitsValue(digits, 0), scale)

parseNumberInput_NoFiniteCheck(value) ==
    LET normalized == Trim(ReplaceComma(value)) IN
    IF normalized = <<>> THEN NaN
    ELSE StringToNumber(normalized)

parseNumberInput(value) ==
    LET normalized == Trim(ReplaceComma(value)) IN
    IF normalized = <<>> THEN NaN
    ELSE LET parsed == StringToNumber(normalized) IN
         IF parsed.kind = "num" THEN parsed ELSE NaN

\* Number.isNaN(x)
IsNaN(x) == x.kind = "nan"

\* x < 0
IsNegative(x) ==
    \/ x.kind = "inf" /\ x.neg
    \/ x.kind = "num" /\ x.neg /\ x.mant > 0

\* Math.round(x): the nearest integer, halves towards +Infinity
MathRound_Floor(x) ==
    IF x.kind # "num" THEN x
    ELSE LET whole == x.mant \div Pow10(x.scale)
         IN  Finite(x.neg /\ whole > 0, whole, 0)

MathRound(x) ==
    IF x.kind # "num" THEN x
    ELSE LET unit == Pow10(x.scale)
             signedMant == IF x.neg THEN 0 - x.mant ELSE x.mant
             rounded == (2 * signedMant + unit) \div (2 * unit)
         IN  Finite(rounded < 0, IF rounded < 0 THEN 0 - rounded ELSE rounded, 0)

\* the number a JSON payload carries to an integer column
ToInteger(x) == IF x.neg THEN 0 - x.mant ELSE x.mant

-----------------------------------------------------------------------------
(* Food diary: the store *)

MaxClicks == 1
MaxPicks == 1

\* the hour of the time picker (mealTime) when a meal is added
MealHours == {12}

\* the day the diary is opened on: Wednesday 2024-01-17
DiaryDays == {16}

EggName == <<"e", "g", "g">>

\* meals the table may hold when the page loads: one in the small hours (UTC)
\* of the selected day, one in its afternoon
EarlyMeal ==
    [id |-> 1, meal_name |-> EggName, meal_time |-> 24 * 16 + 2,
     calories |-> 300, protein |-> 20, carbs |-> 30, fats |-> 10]
LateMeal ==
    [id |-> 2, meal_name |-> EggName, meal_time |-> 24 * 16 + 13,
     calories |-> 350, protein |-> 25, carbs |-> 35, fats |-> 15]

StoredMealSets == {{}, {EarlyMeal, LateMeal}}

\* saved meals the table may hold when the page loads
StoredTemplate ==
    [id |-> 3, meal_name |-> EggName, calories |-> 300, protein |-> 20,
     carbs |-> 30, fats |-> 10]

StoredTemplateSets == SUBSET {StoredTemplate}

\* A row of the view meal_daily_totals.  The view is kept by the store; what
\* it returns for a day need not be the sum of the meals the page holds.
ViewRow(day) ==
    [meal_day |-> day, total_calories |-> 500, total_protein |-> 40,
     total_carbs |-> 50, total_fats |-> 20]

\* the answers of getDailyTotalsForRange: rows in ascending, distinct days
TotalsResponses == {<<>>, <<ViewRow(15), ViewRow(16)>>}

\* the rows of a set in ascending order of meal_time, ties by id
RECURSIVE SortByMealTime(_, _)
SortByMealTime(rows, sorted) ==
    IF rows = {} THEN sorted
    ELSE LET first == CHOOSE r \in rows :
                         \A q \in rows :
                            \/ r.meal_time < q.meal_time
                            \/ r.meal_time = q.meal_time /\ r.id <= q.id
         IN  SortByMealTime(rows \ {first}, Append(sorted, first))

\* the rows of a set in ascending order of id
RECURSIVE SortById(_, _)
SortById(rows, sorted) ==
    IF rows = {} THEN sorted
    ELSE LET first == CHOOSE r \in rows : \A q \in rows : r.id <= q.id
         IN  SortById(rows \ {first}, Append(sorted, first))

\* a Date finer than the hour: the hour it falls in and the milliseconds
\* passed since that hour began
Instant(hour, ms) == [hour |-> hour, ms |-> ms]

\* date.setHours(h, m, s, ms): that time of the date's local day
SetHours(date, h, m, s, ms) ==
    Instant(LocalMidnight(date.hour) + h, (m * 60 + s) * 1000 + ms)

\* date.setDate(date.getDate() + n)
SetDate(date, n) == [date EXCEPT !.hour = AddDays(@, n)]

startOfMonday_SundayForward(date) ==
    LET day == getDay(date.hour)
        diff == 1 - day
    IN  SetDate(SetHours(date, 0, 0, 0, 0), diff)

startOfMonday(date) ==
    LET day == getDay(date.hour)
        diff == IF day = 0 THEN -6 ELSE 1 - day
    IN  SetDate(SetHours(date, 0, 0, 0, 0), diff)

endOfSunday(date) ==
    SetHours(SetDate(startOfMonday(date), 6), 23, 59, 59, 999)

\* the rows getMealsForRange selects
MealsInRange(table, start, end) ==
    SortByMealTime({m \in table : start <= m.meal_time /\ m.meal_time <= end}, <<>>)

\* the rows getSavedMeals selects, ordered by meal_name; the names of the
\* model are equal once trimmed, and rows of one name come in the order of
\* their ids
SavedMealsOf(table) == SortById(table, <<>>)

roundNumeric(value) == IF IsNaN(value) THEN Zero ELSE MathRound(value)

\* the payload upsertMeal sends
UpsertMealPayload(meal) ==
    [id |-> meal.id, meal_time |-> meal.meal_time, meal_name |-> meal.meal_name,
     calories |-> roundNumeric(meal.calories), protein |-> roundNumeric(meal.protein),
     carbs |-> roundNumeric(meal.carbs), fats |-> roundNumeric(meal.fats)]

\* the payload createSavedMeal and updateSavedMeal send
SavedMealPayload(meal) ==
    [meal_name |-> Trim(meal.meal_name),
     calories |-> roundNumeric(meal.calories), protein |-> roundNumeric(meal.protein),
     carbs |-> roundNumeric(meal.carbs), fats |-> roundNumeric(meal.fats)]

NoId == 0

\* the table `meals` after the upsert of a payload
UpsertRow(table, payload, freshId) ==
    LET row == [id |-> IF payload.id = NoId THEN freshId ELSE payload.id,
                meal_name |-> payload.meal_name, meal_time |-> payload.meal_time,
                calories |-> ToInteger(payload.calories),
                protein |-> ToInteger(payload.protein),
                carbs |-> ToInteger(payload.carbs),
                fats |-> ToInteger(payload.fats)]
    IN  {m \in table : m.id # row.id} \cup {row}

\* the table `saved_meals` after an insert (id = NoId) or the update of the
\* row of an id
WriteSavedRow(table, id, payload, freshId) ==
    LET row == [id |-> IF id = NoId THEN freshId ELSE id,
                meal_name |-> payload.meal_name,
                calories |-> ToInteger(payload.calories),
                protein |-> ToInteger(payload.protein),
                carbs |-> ToInteger(payload.carbs),
                fats |-> ToInteger(payload.fats)]
    IN  {m \in table : m.id # row.id} \cup {row}

-----------------------------------------------------------------------------
(* Food diary: the page *)

MacroFields == {"calories", "protein", "carbs", "fats"}

\* a form filled in as intended: 12.7 kcal, 12,4 g, 12.7 g, 12,4 g
UsualForm ==
    [mealName |-> EggName \o <<" ">>, calories |-> <<"1", "2", ".", "7">>,
     protein |-> <<"1", "2", ",", "4">>, carbs |-> <<"1", "2", ".", "7">>,
     fats |-> <<"1", "2", ",", "4">>]

\* what a field may hold instead: nothing, a negative number, letters, an
\* infinite number
OtherStrings ==
    { <<>>,
      <<"-", "5">>,
      <<"a", "b", "c">>,
      <<"I", "n", "f", "i", "n", "i", "t", "y">> }

\* the forms submitted: the usual one, the usual one without a name, and the
\* usual one with one of its four numbers replaced
Forms ==
    {UsualForm, [UsualForm EXCEPT !.mealName = <<>>]}
    \cup {[UsualForm EXCEPT ![f] = str] : f \in MacroFields, str \in OtherStrings}

\* combineDateAndTime: the instant of the local time on the local day of date
combineDateAndTime(date, hours) == LocalMidnight(date) + hours

\* the position of a handler that is not running
Idle == [pc |-> "idle"]

\* the buttons "Add meal" and "Save as template" are disabled
AddMealDisabled(form) ==
    isSaving \/ Trim(form.mealName) = <<>> \/ form.calories = <<>>

SaveAsTemplateDisabled(form) ==
    isSavingTemplate \/ Trim(form.mealName) = <<>> \/ form.calories = <<>>

\* the numbers both handlers read from the form
ParsedForm(form) ==
    [calories |-> parseNumberInput(form.calories),
     protein |-> IF form.protein # <<>> THEN parseNumberInput(form.protein) ELSE Zero,
     carbs |-> IF form.carbs # <<>> THEN parseNumberInput(form.carbs) ELSE Zero,
     fats |-> IF form.fats # <<>> THEN parseNumberInput(form.fats) ELSE Zero]

Rejected(raw) == IsNaN(raw) \/ IsNegative(raw)

\* handleAddMeal up to its first await
handleAddMeal(form, hours) ==
    LET raw == ParsedForm(form) IN
    IF Trim(form.mealName) = <<>> \/ \E f \in MacroFields : Rejected(raw[f])
    THEN /\ lastClick' = [handler |-> "handleAddMeal", outcome |-> "rejected"]
         /\ UNCHANGED <<isSaving, add, requests>>
    ELSE LET mealInput ==
                 [id |-> NoId,
                  meal_time |-> combineDateAndTime(selectedDate, hours),
                  meal_name |-> Trim(form.mealName),
                  calories |-> MathRound(raw.calories),
                  protein |-> MathRound(raw.protein),
                  carbs |-> MathRound(raw.carbs),
                  fats |-> MathRound(raw.fats)]
             payload == UpsertMealPayload(mealInput)
         IN  /\ isSaving' = TRUE
             /\ add' = [pc |-> "upsertMeal", payload |-> payload, selectedDate |-> selectedDate]
             /\ requests' = Append(requests, [op |-> "upsertMeal", payload |-> payload,
                                              form |-> form])
             /\ lastClick' = [handler |-> "handleAddMeal", outcome |-> "sent"]

\* a click on "Add meal"
ClickAddMeal(form) ==
    /\ ~isLoading
    /\ clicks < MaxClicks
    /\ clicks' = clicks + 1
    /\ IF AddMealDisabled(form)
       THEN /\ lastClick' = [handler |-> "handleAddMeal", outcome |-> "disabled"]
            /\ UNCHANGED <<isSaving, add, requests>>
       ELSE \E hours \in MealHours : handleAddMeal(form, hours)
    /\ UNCHANGED <<selectedDate, storeVars, memoryVars, isLoading, isSavingTemplate,
                   saveTemplateError, load, tpl>>
    /\ UNCHANGED <<pageVars, aiVars, libVars, queryVars, estimateVars, isDeleting, dels, logged>>

AddMeal == \E form \in Forms : ClickAddMeal(form)

\* upsertMeal resolves or throws
AddUpsertReturns ==
    /\ add.pc = "upsertMeal"
    /\ \/ /\ storeMeals' = UpsertRow(storeMeals, add.payload, nextStoreId)
          /\ nextStoreId' = nextStoreId + 1
          /\ add' = [pc |-> "getMealsForRange", selectedDate |-> add.selectedDate,
                  query |-> issued + 1]
          /\ issued' = issued + 1 /\ UNCHANGED logged
          /\ UNCHANGED isSaving
       \/ /\ add' = Idle /\ logged' = Append(logged, "Failed to save meal:")
          /\ isSaving' = FALSE
          /\ UNCHANGED <<storeMeals, nextStoreId, issued>>
    /\ UNCHANGED <<selectedDate, storeSaved, memoryVars, isLoading, isSavingTemplate,
                   saveTemplateError, load, tpl, requests, clicks, lastClick>>
    /\ UNCHANGED <<pageVars, aiVars, libVars, picks, shown, estimateVars, isDeleting, dels>>

\* getMealsForRange resolves or throws
AddGetMealsReturns ==
    /\ add.pc = "getMealsForRange"
    /\ \/ LET start == startOfMonday(Instant(add.selectedDate, 0)).hour
              end == endOfSunday(Instant(add.selectedDate, 0)).hour
          IN  /\ add' = [pc |-> "getDailyTotalsForRange",
                         updatedMeals |-> MealsInRange(storeMeals, start, end),
                         mealsQuery |-> add.query, query |-> issued + 1]
              /\ issued' = issued + 1 /\ UNCHANGED logged
              /\ UNCHANGED isSaving
       \/ /\ add' = Idle /\ logged' = Append(logged, "Failed to save meal:")
          /\ isSaving' = FALSE /\ UNCHANGED issued
    /\ UNCHANGED <<selectedDate, storeVars, memoryVars, isLoading, isSavingTemplate,
                   saveTemplateError, load, tpl, requests, clicks, lastClick>>
    /\ UNCHANGED <<pageVars, aiVars, libVars, picks, shown, estimateVars, isDeleting, dels>>

\* getDailyTotalsForRange resolves or throws
AddGetTotalsReturns ==
    /\ add.pc = "getDailyTotalsForRange"
    /\ \/ \E updatedTotals \in TotalsResponses :
             /\ meals' = add.updatedMeals
             /\ dailyTotals' = updatedTotals
             /\ shown' = [meals |-> add.mealsQuery, dailyTotals |-> add.query]
             /\ UNCHANGED logged
       \/ /\ UNCHANGED <<meals, dailyTotals, shown>>
          /\ logged' = Append(logged, "Failed to save meal:")
    /\ add' = Idle
    /\ isSaving' = FALSE
    /\ UNCHANGED <<selectedDate, storeVars, savedMeals, isLoading, isSavingTemplate,
                   saveTemplateError, load, tpl, requests, clicks, lastClick>>
    /\ UNCHANGED <<pageVars, aiVars, libVars, picks, issued, estimateVars, isDeleting, dels>>

\* the message handleSaveAsTemplate sets for the first check that fails, or
\* "" when every check passes
TemplateCheck(form) ==
    LET raw == ParsedForm(form) IN
    IF Trim(form.mealName) = <<>> THEN "Meal name is required"
    ELSE IF Rejected(raw.calories) THEN "Valid calories value is required"
    ELSE IF Rejected(raw.protein) THEN "Valid protein value is required"
    ELSE IF Rejected(raw.carbs) THEN "Valid carbs value is required"
    ELSE IF Rejected(raw.fats) THEN "Valid fats value is required"
    ELSE ""

\* saveTemplateError is null
NoError == ""

\* handleSaveAsTemplate up to its first await
handleSaveAsTemplate(form) ==
    LET raw == ParsedForm(form)
        message == TemplateCheck(form)
    IN
    IF message # ""
    THEN /\ saveTemplateError' = message
         /\ lastClick' = [handler |-> "handleSaveAsTemplate", outcome |-> "rejected"]
         /\ UNCHANGED <<isSavingTemplate, tpl, requests>>
    ELSE LET found == {i \in DOMAIN savedMeals :
                          Trim(savedMeals[i].meal_name) = Trim(form.mealName)}
             existingId == IF found = {} THEN NoId
                           ELSE savedMeals[CHOOSE i \in found : \A j \in found : i <= j].id
             payload == SavedMealPayload(
                            [meal_name |-> Trim(form.mealName),
                             calories |-> MathRound(raw.calories),
                             protein |-> MathRound(raw.protein),
                             carbs |-> MathRound(raw.carbs),
                             fats |-> MathRound(raw.fats)])
             op == IF existingId = NoId THEN "createSavedMeal" ELSE "updateSavedMeal"
         IN  /\ isSavingTemplate' = TRUE
             /\ saveTemplateError' = NoError
             /\ tpl' = [pc |-> op, id |-> existingId, payload |-> payload]
             /\ requests' = Append(requests, [op |-> op, payload |-> payload,
                                              form |-> form])
             /\ lastClick' = [handler |-> "handleSaveAsTemplate", outcome |-> "sent"]

\* a click on "Save as template"
ClickSaveAsTemplate(form) ==
    /\ ~isLoading
    /\ clicks < MaxClicks
    /\ clicks' = clicks + 1
    /\ IF SaveAsTemplateDisabled(form)
       THEN /\ lastClick' = [handler |-> "handleSaveAsTemplate", outcome |-> "disabled"]
            /\ UNCHANGED <<isSavingTemplate, saveTemplateError, tpl, requests>>
       ELSE handleSaveAsTemplate(form)
    /\ UNCHANGED <<selectedDate, storeVars, memoryVars, isLoading, isSaving, load, add>>
    /\ UNCHANGED <<pageVars, aiVars, libVars, queryVars, estimateVars, isDeleting, dels, logged>>

SaveAsTemplate == \E form \in Forms : ClickSaveAsTemplate(form)

\* createSavedMeal or updateSavedMeal resolves or throws; an update of a row
\* that is not in the table throws
TemplateWriteReturns ==
    /\ tpl.pc \in {"createSavedMeal", "updateSavedMeal"}
    /\ \/ /\ tpl.id = NoId \/ \E m \in storeSaved : m.id = tpl.id
          /\ storeSaved' = WriteSavedRow(storeSaved, tpl.id, tpl.payload, nextStoreId)
          /\ nextStoreId' = nextStoreId + 1
          /\ tpl' = [pc |-> "getSavedMeals"] /\ UNCHANGED logged
          /\ UNCHANGED <<isSavingTemplate, saveTemplateError>>
       \/ /\ tpl' = Idle /\ logged' = Append(logged, "Failed to save template:")
          /\ saveTemplateError' = "Failed to save template. Please try again."
          /\ isSavingTemplate' = FALSE
          /\ UNCHANGED <<storeSaved, nextStoreId>>
    /\ UNCHANGED <<selectedDate, storeMeals, memoryVars, isLoading, isSaving, load, add,
                   requests, clicks, lastClick>>
    /\ UNCHANGED <<pageVars, aiVars, libVars, queryVars, estimateVars, isDeleting, dels>>

\* what getSavedMeals returns: the rows, or the empty list on any error
SavedMealsResponses == {SavedMealsOf(storeSaved), <<>>}

\* getSavedMeals resolves
TemplateGetSavedReturns ==
    /\ tpl.pc = "getSavedMeals"
    /\ \E updatedSavedMeals \in SavedMealsResponses : savedMeals' = updatedSavedMeals
    /\ tpl' = Idle
    /\ isSavingTemplate' = FALSE
    /\ UNCHANGED <<selectedDate, storeVars, meals, dailyTotals, isLoading, isSaving,
                   saveTemplateError, load, add, requests, clicks, lastClick>>
    /\ UNCHANGED <<pageVars, aiVars, libVars, queryVars, estimateVars, isDeleting, dels, logged>>

\* the load effect: getMealsForRange resolves or throws
LoadGetMealsReturns ==
    /\ load.pc = "getMealsForRange"
    /\ \/ LET start == startOfMonday(Instant(selectedDate, 0)).hour
              end == endOfSunday(Instant(selectedDate, 0)).hour
          IN  /\ load' = [pc |-> "getDailyTotalsForRange",
                          mealsData |-> MealsInRange(storeMeals, start, end),
                          mealsQuery |-> load.query, query |-> issued + 1]
              /\ issued' = issued + 1 /\ UNCHANGED logged
              /\ UNCHANGED isLoading
       \/ /\ load' = Idle /\ logged' = Append(logged, "Failed to load food diary data:")
          /\ isLoading' = FALSE /\ UNCHANGED issued
    /\ UNCHANGED <<selectedDate, storeVars, memoryVars, isSaving, isSavingTemplate,
                   saveTemplateError, add, tpl, requests, clicks, lastClick>>
    /\ UNCHANGED <<pageVars, aiVars, libVars, picks, shown, estimateVars, isDeleting, dels>>

\* the load effect: getDailyTotalsForRange resolves or throws
LoadGetTotalsReturns ==
    /\ load.pc = "getDailyTotalsForRange"
    /\ \/ \E dailyTotalsData \in TotalsResponses :
             /\ meals' = load.mealsData
             /\ dailyTotals' = dailyTotalsData
             /\ shown' = [meals |-> load.mealsQuery, dailyTotals |-> load.query]
             /\ UNCHANGED logged
       \/ /\ UNCHANGED <<meals, dailyTotals, shown>>
          /\ logged' = Append(logged, "Failed to load food diary data:")
    /\ load' = Idle
    /\ isLoading' = FALSE
    /\ UNCHANGED <<selectedDate, storeVars, savedMeals, isSaving, isSavingTemplate,
                   saveTemplateError, add, tpl, requests, clicks, lastClick>>
    /\ UNCHANGED <<pageVars, aiVars, libVars, picks, issued, estimateVars, isDeleting, dels>>

\* the calls in flight without the i-th, which has settled
WithoutCall(calls, i) ==
    SubSeq(calls, 1, i - 1) \o SubSeq(calls, i + 1, Len(calls))

\* handleDeleteMeal up to its first await: a click on "Remove" in the menu of
\* a displayed meal
DeleteMeal ==
    /\ ~isLoading
    /\ clicks < MaxClicks
    /\ clicks' = clicks + 1
    /\ \E i \in DOMAIN meals :
          /\ isDeleting # meals[i].id
          /\ isDeleting' = meals[i].id
          /\ dels' = Append(dels, [pc |-> "deleteMeal", mealId |-> meals[i].id,
                                selectedDate |-> selectedDate])
    /\ lastClick' = [handler |-> "handleDeleteMeal", outcome |-> "sent"]
    /\ UNCHANGED <<selectedDate, storeVars, memoryVars, isLoading, isSaving,
                   isSavingTemplate, saveTemplateError, load, add, tpl, requests, logged>>
    /\ UNCHANGED <<pageVars, aiVars, libVars, queryVars, estimateVars>>

\* handleDeleteMeal: the catch and the finally block
DeleteFails(i) ==
    /\ logged' = Append(logged, "Failed to delete meal:")
    /\ isDeleting' = NoId
    /\ dels' = WithoutCall(dels, i)

\* deleteMeal resolves or throws
DeleteMealReturns ==
    /\ \E i \in DOMAIN dels :
          /\ dels[i].pc = "deleteMeal"
          /\ \/ /\ storeMeals' = {m \in storeMeals : m.id # dels[i].mealId}
                /\ dels' = [dels EXCEPT ![i] =
                             [pc |-> "getMealsForRange", mealId |-> @.mealId,
                              selectedDate |-> @.selectedDate, query |-> issued + 1]]
                /\ issued' = issued + 1
                /\ UNCHANGED <<isDeleting, logged>>
             \/ /\ DeleteFails(i)
                /\ UNCHANGED <<storeMeals, issued>>
    /\ UNCHANGED <<selectedDate, storeSaved, nextStoreId, memoryVars, isLoading, isSaving,
                   isSavingTemplate, saveTemplateError, load, add, tpl, requests,
                   clicks, lastClick>>
    /\ UNCHANGED <<pageVars, aiVars, libVars, picks, shown, estimateVars>>

\* getMealsForRange resolves or throws
DeleteGetMealsReturns ==
    /\ \E i \in DOMAIN dels :
          /\ dels[i].pc = "getMealsForRange"
          /\ \/ LET start == startOfMonday(Instant(dels[i].selectedDate, 0)).hour
                    end == endOfSunday(Instant(dels[i].selectedDate, 0)).hour
                IN  /\ dels' = [dels EXCEPT ![i] =
                                   [pc |-> "getDailyTotalsForRange", mealId |-> @.mealId,
                                    updatedMeals |-> MealsInRange(storeMeals, start, end),
                                    mealsQuery |-> @.query, query |-> issued + 1]]
                    /\ issued' = issued + 1
                    /\ UNCHANGED <<isDeleting, logged>>
             \/ DeleteFails(i) /\ UNCHANGED issued
    /\ UNCHANGED <<selectedDate, storeVars, memoryVars, isLoading, isSaving,
                   isSavingTemplate, saveTemplateError, load, add, tpl, requests,
                   clicks, lastClick>>
    /\ UNCHANGED <<pageVars, aiVars, libVars, picks, shown, estimateVars>>

DeleteGetTotalsReturns_SetsMealsFirst ==
    /\ \E i \in DOMAIN dels :
          /\ dels[i].pc = "getDailyTotalsForRange"
          /\ meals' = dels[i].updatedMeals
          /\ \/ /\ \E updatedTotals \in TotalsResponses : dailyTotals' = updatedTotals
                /\ shown' = [meals |-> dels[i].mealsQuery, dailyTotals |-> dels[i].query]
                /\ dels' = WithoutCall(dels, i)
                /\ isDeleting' = NoId
                /\ UNCHANGED logged
             \/ /\ DeleteFails(i)
                /\ shown' = [shown EXCEPT !.meals = dels[i].mealsQuery]
                /\ UNCHANGED dailyTotals
    /\ UNCHANGED <<selectedDate, storeVars, savedMeals, isLoading, isSaving,
                   isSavingTemplate, saveTemplateError, load, add, tpl, requests,
                   clicks, lastClick>>
    /\ UNCHANGED <<pageVars, aiVars, libVars, picks, issued, estimateVars>>

\* getDailyTotalsForRange resolves or throws
DeleteGetTotalsReturns ==
    /\ \E i \in DOMAIN dels :
          /\ dels[i].pc = "getDailyTotalsForRange"
          /\ \/ /\ \E updatedTotals \in TotalsResponses :
                      /\ meals' = dels[i].updatedMeals
                      /\ dailyTotals' = updatedTotals
                      /\ shown' = [meals |-> dels[i].mealsQuery, dailyTotals |-> dels[i].query]
                /\ dels' = WithoutCall(dels, i)
                /\ isDeleting' = NoId
                /\ UNCHANGED logged
             \/ /\ DeleteFails(i)
                /\ UNCHANGED <<meals, dailyTotals, shown>>
    /\ UNCHANGED <<selectedDate, storeVars, savedMeals, isLoading, isSaving,
                   isSavingTemplate, saveTemplateError, load, add, tpl, requests,
                   clicks, lastClick>>
    /\ UNCHANGED <<pageVars, aiVars, libVars, picks, issued, estimateVars>>

\* the days the date picker offers: one of the week on display, one of the
\* week after
PickDays == {17, 23}

\* a day is picked in the date picker: setSelectedDate with the local midnight
\* of that day, and the load effect it triggers, up to its first await
SelectDate ==
    /\ ~isLoading
    /\ picks < MaxPicks
    /\ picks' = picks + 1
    /\ \E day \in PickDays : selectedDate' = 24 * day - tz
    /\ isLoading' = TRUE
    /\ load' = [pc |-> "getMealsForRange", query |-> issued + 1]
    /\ issued' = issued + 1
    /\ UNCHANGED <<storeVars, memoryVars, isSaving, isSavingTemplate, saveTemplateError,
                   add, tpl, requests, clicks, lastClick, isDeleting, dels, logged, shown>>
    /\ UNCHANGED <<pageVars, aiVars, libVars, estimateVars>>

\* the four macro fields are empty, and no estimate is asked for
EmptyMealForm == [calories |-> <<>>, protein |-> <<>>, carbs |-> <<>>, fats |-> <<>>]

EstimateOff ==
    /\ mealForm = EmptyMealForm
    /\ isAnalyzingMeal = FALSE
    /\ aiEstimateError = ""
    /\ analyze = [pc |-> "idle", requests |-> 0]

\* the diary is not open
DiaryOff ==
    /\ selectedDate = now
    /\ storeMeals = {} /\ storeSaved = {} /\ nextStoreId = 4
    /\ meals = <<>> /\ dailyTotals = <<>> /\ savedMeals = <<>>
    /\ isLoading = TRUE /\ isSaving = FALSE /\ isSavingTemplate = FALSE
    /\ saveTemplateError = NoError
    /\ load = Idle /\ add = Idle /\ tpl = Idle
    /\ requests = <<>> /\ clicks = 0
    /\ lastClick = [handler |-> "none", outcome |-> "none"]
    /\ isDeleting = NoId /\ dels = <<>> /\ logged = <<>>
    /\ picks = 0 /\ issued = 0 /\ shown = [meals |-> 0, dailyTotals |-> 0]
    /\ EstimateOff

\* the diary is mounted for a signed-in user: the saved meals are loaded and
\* the load effect has made its first request
InitDiary ==
    /\ selectedDate = now
    /\ storeMeals \in StoredMealSets
    /\ storeSaved \in StoredTemplateSets
    /\ nextStoreId = 4
    /\ meals = <<>> /\ dailyTotals = <<>>
    /\ savedMeals \in SavedMealsResponses
    /\ isLoading = TRUE /\ isSaving = FALSE /\ isSavingTemplate = FALSE
    /\ saveTemplateError = NoError
    /\ load = [pc |-> "getMealsForRange", query |-> 1] /\ add = Idle /\ tpl = Idle
    /\ requests = <<>> /\ clicks = 0
    /\ lastClick = [handler |-> "none", outcome |-> "none"]
    /\ isDeleting = NoId /\ dels = <<>> /\ logged = <<>>
    /\ picks = 0 /\ issued = 1 /\ shown = [meals |-> 0, dailyTotals |-> 0]
    /\ EstimateOff

-----------------------------------------------------------------------------
(* Food diary: the totals of the days *)

EmptyDictionary == [k \in {} |-> k]

\* dictionary[key] = value
Put(dictionary, key, value) ==
    [k \in DOMAIN dictionary \cup {key} |-> IF k = key THEN value ELSE dictionary[k]]

RECURSIVE GroupMeals(_, _, _)
GroupMeals(list, i, grouped) ==
    IF i > Len(list) THEN grouped
    ELSE LET meal == list[i]
             day == formatDateKey(meal.meal_time)
             dayMeals == IF day \in DOMAIN grouped THEN grouped[day] ELSE <<>>
         IN  GroupMeals(list, i + 1, Put(grouped, day, Append(dayMeals, meal)))

mealsByDay == GroupMeals(meals, 1, EmptyDictionary)

RECURSIVE ReduceMeals(_, _, _)
ReduceMeals(dayMeals, i, acc) ==
    IF i > Len(dayMeals) THEN acc
    ELSE ReduceMeals(dayMeals, i + 1,
            [total_calories |-> acc.total_calories + dayMeals[i].calories,
             total_protein |-> acc.total_protein + dayMeals[i].protein,
             total_carbs |-> acc.total_carbs + dayMeals[i].carbs,
             total_fats |-> acc.total_fats + dayMeals[i].fats])

computedTotalsByDay ==
    [day \in DOMAIN mealsByDay |->
        LET aggregate == ReduceMeals(mealsByDay[day], 1,
                            [total_calories |-> 0, total_protein |-> 0,
                             total_carbs |-> 0, total_fats |-> 0])
        IN  [meal_day |-> day,
             total_calories |-> aggregate.total_calories,
             total_protein |-> aggregate.total_protein,
             total_carbs |-> aggregate.total_carbs,
             total_fats |-> aggregate.total_fats]]

RECURSIVE PutTotals(_, _, _)
PutTotals(list, i, dictionary) ==
    IF i > Len(list) THEN dictionary
    ELSE LET total == list[i]
             key == formatDateKey(ParseDateKey(total.meal_day))
         IN  PutTotals(list, i + 1, Put(dictionary, key, total))

totalsByDay_StoreWins ==
    LET computed == computedTotalsByDay
        stored == PutTotals(dailyTotals, 1, EmptyDictionary)
    IN  [day \in DOMAIN computed \cup DOMAIN stored |->
            IF day \in DOMAIN stored THEN stored[day] ELSE computed[day]]

totalsByDay ==
    LET computed == computedTotalsByDay
        stored == PutTotals(dailyTotals, 1, EmptyDictionary)
    IN  [day \in DOMAIN stored \cup DOMAIN computed |->
            IF day \in DOMAIN computed THEN computed[day] ELSE stored[day]]

\* a point of the daily trend
TrendPoint(date, totals) ==
    [date |-> date, calories |-> totals.total_calories, protein |-> totals.total_protein,
     carbs |-> totals.total_carbs, fats |-> totals.total_fats]

\* trend.findIndex(point => point.date === day), 0 when there is none
FindIndex(trend, day) ==
    LET at == {k \in DOMAIN trend : trend[k].date = day} IN
    IF at = {} THEN 0 ELSE CHOOSE k \in at : \A l \in at : k <= l

\* one pass of Object.entries(computedTotalsByDay).forEach, which always pushes
MergeDay_AlwaysPushes(trend, day, totals) ==
    Append(trend, TrendPoint(day, totals))

\* one pass of Object.entries(computedTotalsByDay).forEach
MergeDay(trend, day, totals) ==
    LET existingIndex == FindIndex(trend, day) IN
    IF existingIndex >= 1
    THEN [trend EXCEPT ![existingIndex] = TrendPoint(day, totals)]
    ELSE Append(trend, TrendPoint(day, totals))

\* the passes for the days left
RECURSIVE MergeDays(_, _)
MergeDays(trend, days) ==
    IF days = {} THEN trend
    ELSE LET day == CHOOSE d \in days : \A e \in days : d <= e
         IN  MergeDays(MergeDay(trend, day, computedTotalsByDay[day]), days \ {day})

\* insertion of a point into a list sorted by date
RECURSIVE InsertByDate(_, _)
InsertByDate(sorted, p) ==
    IF sorted = <<>> THEN <<p>>
    ELSE IF p.date < Head(sorted).date THEN <<p>> \o sorted
    ELSE <<Head(sorted)>> \o InsertByDate(Tail(sorted), p)

\* trend.sort((a, b) => a.date.localeCompare(b.date))
RECURSIVE SortByDate(_, _)
SortByDate(points, sorted) ==
    IF points = <<>> THEN sorted
    ELSE SortByDate(Tail(points), InsertByDate(sorted, Head(points)))

dailyTrend ==
    LET trend == [i \in DOMAIN dailyTotals |->
                     TrendPoint(formatDateKey(ParseDateKey(dailyTotals[i].meal_day)),
                                dailyTotals[i])]
    IN  SortByDate(MergeDays(trend, DOMAIN computedTotalsByDay), <<>>)

-----------------------------------------------------------------------------
(* Read operations of the food diary store (lib/meals.ts) *)

\* A text of an error is the sequence of its words; a field that is null,
\* undefined or '' is the empty sequence.  An error object is a function
\* from the keys it has to their texts.
PostgrestError(code, message, details, hint) ==
    [code |-> code, message |-> message, details |-> details, hint |-> hint]

\* error.key || ''
Field(error, key) == IF key \in DOMAIN error THEN error[key] ELSE <<>>

\* String.prototype.includes(phrase): the words of the phrase, in a row
IncludesPhrase(text, phrase) ==
    \E i \in 1 .. Len(text) - Len(phrase) + 1 :
        SubSeq(text, i, i + Len(phrase) - 1) = phrase

\* JSON.stringify(error).includes(phrase): the phrases looked for are in no
\* key, so they are in the text of some field
StringifiedIncludes(error, phrase) ==
    \E key \in DOMAIN error : IncludesPhrase(error[key], phrase)

\* the tables and the view the read operations select from
ReadTables == {"meals", "meal_daily_totals", "saved_meals", "user_preferences"}

\* the answer to .single() when the user has no row
NoRowFound ==
    PostgrestError(<<"PGRST116">>,
                   <<"JSON", "object", "requested,", "multiple", "(or", "no)", "rows", "returned">>,
                   <<"The", "result", "contains", "0", "rows">>, <<>>)

\* the errors the store answers a select with
StoreErrors(table) ==
    {PostgrestError(<<"42P01">>, <<"relation", table, "does", "not", "exist">>, <<>>, <<>>),
     PostgrestError(<<"PGRST205">>,
                    <<"Could", "not", "find", "the", "table", table, "in", "the", "schema", "cache">>,
                    <<>>, <<>>),
     PostgrestError(<<"PGRST205">>,
                    <<"Could", "not", "find", "the", "table", table, "in", "the", "schema", "cache">>,
                    <<>>, <<"Perhaps", "you", "meant", "the", "table", "activity_rows">>),
     PostgrestError(<<"42501">>, <<"permission", "denied", "for", "table", table>>, <<>>, <<>>),
     PostgrestError(<<"42703">>, <<"column", "user_id", "does", "not", "exist">>, <<>>, <<>>),
     PostgrestError(<<"57014">>,
                    <<"canceling", "statement", "due", "to", "statement", "timeout">>,
                    <<>>, <<>>),
     PostgrestError(<<"PGRST301">>, <<"JWT", "expired">>, <<>>, <<>>),
     PostgrestError(<<>>, <<"TypeError:", "Failed", "to", "fetch">>, <<>>, <<>>),
     [key \in {"hint"} |-> <<>>],
     [key \in {} |-> <<>>]}
    \cup (IF table = "user_preferences" THEN {NoRowFound} ELSE {})

\* the rows a select of the table answers with; the one row of
\* user_preferences is a list of one row here, and null the empty list
StoredRows(table) ==
    IF table = "meals" THEN {<<>>, <<EarlyMeal, LateMeal>>}
    ELSE IF table = "meal_daily_totals" THEN TotalsResponses
    ELSE IF table = "saved_meals" THEN {<<>>, <<StoredTemplate>>}
    ELSE {<<[daily_calories_goal |-> 2000]>>}

\* what awaiting a select gives: { data, error: null }, { data: null, error },
\* or an exception
StoreResponses(table) ==
    {[kind |-> "data", isNull |-> FALSE, data |-> rows] : rows \in StoredRows(table)}
    \cup {[kind |-> "data", isNull |-> TRUE, data |-> <<>>]}
    \cup {[kind |-> "error", error |-> e] : e \in StoreErrors(table)}
    \cup {[kind |-> "throws", error |-> e] :
             e \in {PostgrestError(<<>>, <<"TypeError:", "Failed", "to", "fetch">>, <<>>, <<>>)}}

\* how the promise of an operation settles
Fulfilled(value) == [kind |-> "fulfilled", value |-> value]
RejectedWith(error) == [kind |-> "rejected", error |-> error]

\* data ?? []
DataOrEmpty(response) == IF response.isNull THEN <<>> ELSE response.data

getMealsForRange(response) ==
    IF response.kind = "throws" THEN RejectedWith(response.error)
    ELSE IF response.kind = "error" THEN RejectedWith(response.error)
    ELSE Fulfilled(DataOrEmpty(response))

getDailyTotalsForRange(response) ==
    IF response.kind = "throws" THEN RejectedWith(response.error)
    ELSE IF response.kind = "error" THEN RejectedWith(response.error)
    ELSE Fulfilled(DataOrEmpty(response))

\* the test both getSavedMeals and getUserPreferences make on an error
LooksLikeMissingTable(error, codes) ==
    LET errorMessage == Field(error, "message")
        errorCode == Field(error, "code")
        errorKeys == DOMAIN error
    IN  \/ errorCode \in codes
        \/ IncludesPhrase(errorMessage, <<"does", "not", "exist">>)
        \/ IncludesPhrase(errorMessage, <<"relation">>)
        \/ IncludesPhrase(errorMessage, <<"Could", "not", "find">>)
        \/ StringifiedIncludes(error, <<"does", "not", "exist">>)
        \/ StringifiedIncludes(error, <<"relation">>)
        \/ StringifiedIncludes(error, <<"Could", "not", "find">>)
        \/ errorKeys = {}
        \/ errorKeys = {"hint"}

\* the body of the try block of getSavedMeals
getSavedMealsTry(response) ==
    IF response.kind = "throws" THEN RejectedWith(response.error)
    ELSE IF response.kind = "error"
    THEN IF LooksLikeMissingTable(response.error, {<<"42P01">>, <<"PGRST116">>})
         THEN Fulfilled(<<>>)
         ELSE RejectedWith(response.error)
    ELSE Fulfilled(DataOrEmpty(response))

\* try { ... } catch (err) { return []; }
getSavedMeals(response) ==
    LET tried == getSavedMealsTry(response) IN
    IF tried.kind = "rejected" THEN Fulfilled(<<>>) ELSE tried

\* the body of the try block of getUserPreferences
getUserPreferencesTry(response) ==
    IF response.kind = "throws" THEN RejectedWith(response.error)
    ELSE IF response.kind = "error"
    THEN IF LooksLikeMissingTable(response.error,
                                  {<<"42P01">>, <<"PGRST116">>, <<"PGRST301">>})
         THEN Fulfilled(<<>>)
         ELSE RejectedWith(response.error)
    ELSE Fulfilled(response.data)

\* try { ... } catch (err) { return null; }
getUserPreferences(response) ==
    LET tried == getUserPreferencesTry(response) IN
    IF tried.kind = "rejected" THEN Fulfilled(<<>>) ELSE tried

-----------------------------------------------------------------------------
(* Times of day typed into the food diary *)

\* String.prototype.replace('.', ':'): the first dot only
ReplaceDot(value) ==
    LET dots == {i \in DOMAIN value : value[i] = "."} IN
    IF dots = {} THEN value
    ELSE [value EXCEPT ![CHOOSE i \in dots : \A j \in dots : i <= j] = ":"]

IsDigitOrColon(c) == IsDigit(c) \/ c = ":"

\* Number(str) of a string of digits; Number('') is 0
DigitsToNumber(str) == DigitsValue(str, 0)

\* Number.prototype.toString() of a natural number
RECURSIVE NumberToString(_)
NumberToString(n) ==
    IF n < 10 THEN <<DigitChars[n + 1]>>
    ELSE Append(NumberToString(n \div 10), DigitChars[(n % 10) + 1])

\* String.prototype.padStart(length, '0')
RECURSIVE PadStart(_, _)
PadStart(str, length) ==
    IF Len(str) >= length THEN str ELSE PadStart(<<"0">> \o str, length)

MathMin(a, b) == IF a < b THEN a ELSE b
MathMax(a, b) == IF a > b THEN a ELSE b

\* Math.max(0, Math.min(limit, n))
Clamp_NoUpperLimit(n, limit) == MathMax(0, n)

Clamp(n, limit) == MathMax(0, MathMin(limit, n))

\* sanitized.split(':'): the pieces between the colons
RECURSIVE Split(_, _, _)
Split(str, piece, pieces) ==
    IF str = <<>> THEN Append(pieces, piece)
    ELSE IF Head(str) = ":" THEN Split(Tail(str), <<>>, Append(pieces, piece))
    ELSE Split(Tail(str), Append(piece, Head(str)), pieces)

\* `${hours}:${minutes}`
HHMM(hours, minutes) == hours \o <<":">> \o minutes

normalizeTimeInput(value) ==
    IF value = <<>> THEN HHMM(<<"0", "0">>, <<"0", "0">>)
    ELSE
    LET sanitized == SelectSeq(ReplaceDot(value), IsDigitOrColon)
        digits == SelectSeq(sanitized, IsDigit)
        pieces == Split(sanitized, <<>>, <<>>)
        hoursRaw == pieces[1]
        minutesRaw == IF Len(pieces) >= 2 THEN pieces[2] ELSE <<"0", "0">>
    IN  IF ~(\E i \in DOMAIN sanitized : sanitized[i] = ":") /\ Len(digits) >= 3
        THEN LET hoursPart == SubSeq(digits, 1, Len(digits) - 2)
                 minutesPart == SubSeq(digits, Len(digits) - 1, Len(digits))
             IN  HHMM(PadStart(NumberToString(Clamp(DigitsToNumber(hoursPart), 23)), 2),
                      PadStart(NumberToString(Clamp(DigitsToNumber(minutesPart), 59)), 2))
        ELSE IF ~(\E i \in DOMAIN sanitized : sanitized[i] = ":") /\ Len(digits) = 2
        THEN HHMM(PadStart(NumberToString(Clamp(DigitsToNumber(digits), 23)), 2),
                  <<"0", "0">>)
        ELSE IF ~(\E i \in DOMAIN sanitized : sanitized[i] = ":") /\ Len(digits) = 1
        THEN HHMM(<<"0">> \o digits, <<"0", "0">>)
        ELSE HHMM(PadStart(NumberToString(Clamp(DigitsToNumber(hoursRaw), 23)), 2),
                  PadStart(NumberToString(Clamp(DigitsToNumber(minutesRaw), 59)), 2))

-----------------------------------------------------------------------------
(* Food diary: the macro estimate (handleAnalyzeMeal) *)

\* The text of a response is a sequence of tokens: an opening brace, a
\* closing brace, a member "key": value, or any other text.  A JSON value is
\* a number, or something of another type.
Open == [kind |-> "open", key |-> "", type |-> "", num |-> Zero]
Close == [kind |-> "close", key |-> "", type |-> "", num |-> Zero]
Word == [kind |-> "word", key |-> "", type |-> "", num |-> Zero]
Member(key, type, num) == [kind |-> "member", key |-> key, type |-> type, num |-> num]

\* rawText.match(/\{[\s\S]*\}/): from the first opening brace to the last
\* closing brace after it; the empty sequence when there is no match
JsonMatch(rawText) ==
    LET opens == {i \in DOMAIN rawText : rawText[i].kind = "open"}
        first == CHOOSE i \in opens : \A j \in opens : i <= j
        closes == {i \in DOMAIN rawText : rawText[i].kind = "close" /\ i > first}
        last == CHOOSE i \in closes : \A j \in closes : j <= i
    IN  IF opens = {} THEN <<>>
        ELSE IF closes = {} THEN <<>>
        ELSE SubSeq(rawText, first, last)

\* JSON.parse does not throw: between the braces there are members only
IsJsonObject(text) ==
    \A i \in 2 .. Len(text) - 1 : text[i].kind = "member"

\* parsed[key] of JSON.parse(text): the last member of that key; a value of
\* type "undefined" when there is none
Property(text, key) ==
    LET at == {i \in DOMAIN text : text[i].kind = "member" /\ text[i].key = key} IN
    IF at = {} THEN Member(key, "undefined", Zero)
    ELSE text[CHOOSE i \in at : \A j \in at : j <= i]

sanitize_NoSignCheck(value) ==
    IF value.type = "number" /\ value.num.kind = "num"
    THEN MathRound(value.num)
    ELSE Zero

sanitize(value) ==
    IF value.type = "number" /\ value.num.kind = "num" /\ ~IsNegative(value.num)
    THEN MathRound(value.num)
    ELSE Zero

\* String(n) of a whole number
WholeToString(n) ==
    IF n.neg /\ n.mant > 0 THEN <<"-">> \o NumberToString(n.mant)
    ELSE NumberToString(n.mant)

\* the members a response may carry
GoodMembers ==
    <<Member("calories", "number", Finite(FALSE, 120, 0)),
      Member("protein", "number", Finite(FALSE, 85, 1)),
      Member("carbs", "number", Finite(FALSE, 15, 0)),
      Member("fats", "number", Finite(FALSE, 4, 0))>>

OddMembers ==
    <<Member("calories", "null", Zero),
      Member("protein", "string", Zero),
      Member("carbs", "number", Infinity(FALSE)),
      Member("calories", "number", Finite(TRUE, 50, 0))>>

\* the texts generateContent answers with
ResponseTexts ==
    {<<Open>> \o GoodMembers \o <<Close>>,
     <<Word, Open>> \o GoodMembers \o <<Close, Word>>,
     <<Open>> \o OddMembers \o <<Close>>,
     <<Open, Close>>,
     <<Open>> \o GoodMembers \o <<Close, Word, Open, Close>>,
     <<Open, Word>> \o GoodMembers \o <<Close>>,
     <<Open>> \o GoodMembers,
     <<Close, Word, Open>>,
     <<Word>>,
     <<>>}

\* response.text, and the texts of the parts of response.candidates[0]; a
\* response without text has no candidate, or one whose parts hold no text
Responses ==
    {[text |-> text, candidates |-> <<>>] : text \in ResponseTexts}
    \cup {[text |-> <<>>, candidates |-> <<<< <<>>, <<>> >>>>]}

\* parts.map(part => part.text).join('')
RECURSIVE Join(_)
Join(parts) == IF parts = <<>> THEN <<>> ELSE Head(parts) \o Join(Tail(parts))

RawText(response) ==
    IF response.text = <<>> /\ Len(response.candidates) > 0
    THEN Join(response.candidates[1])
    ELSE response.text

\* what is typed into the description
Descriptions == {<<>>, <<" ">>, <<"o", "a", "t", "s">>}

\* what is typed into a macro field
FieldStrings == {<<>>, <<"1", "2", ".", "7">>}

NotConfiguredMessage ==
    "Meal analysis requires a Gemini API key. Add NEXT_PUBLIC_GEMINI_API_KEY to enable this feature."
UnableMessage ==
    "Unable to analyze the meal description. Please adjust the details and try again."

\* onChange of one of the four macro inputs
EditMacroField ==
    /\ ~isLoading
    /\ \E f \in MacroFields, str \in FieldStrings :
          /\ mealForm[f] # str
          /\ mealForm' = [mealForm EXCEPT ![f] = str]
    /\ UNCHANGED <<isAnalyzingMeal, aiEstimateError, analyze>>
    /\ UNCHANGED <<selectedDate, storeVars, memoryVars, isLoading, isSaving, isSavingTemplate,
                   saveTemplateError, load, add, tpl, requests, clicks, lastClick,
                   isDeleting, dels, logged>>
    /\ UNCHANGED <<pageVars, aiVars, libVars, queryVars>>

\* handleAnalyzeMeal up to its await: a click on "Analyze with AI"
AnalyzeMeal ==
    /\ ~isLoading
    /\ clicks < MaxClicks
    /\ ~isAnalyzingMeal
    /\ clicks' = clicks + 1
    /\ lastClick' = [handler |-> "handleAnalyzeMeal", outcome |-> "sent"]
    /\ \E mealDescription \in Descriptions :
          /\ Trim(mealDescription) # <<>>
          /\ IF ~apiKey
             THEN /\ aiEstimateError' = NotConfiguredMessage
                  /\ analyze' = [pc |-> "idle", requests |-> analyze.requests]
                  /\ UNCHANGED isAnalyzingMeal
             ELSE /\ isAnalyzingMeal' = TRUE
                  /\ aiEstimateError' = ""
                  /\ analyze' = [pc |-> "generateContent", requests |-> analyze.requests + 1]
    /\ UNCHANGED mealForm
    /\ UNCHANGED <<selectedDate, storeVars, memoryVars, isLoading, isSaving, isSavingTemplate,
                   saveTemplateError, load, add, tpl, requests, isDeleting, dels, logged>>
    /\ UNCHANGED <<pageVars, aiVars, libVars, queryVars>>

\* generateContent resolves or throws
AnalyzeReturns ==
    /\ analyze.pc = "generateContent"
    /\ \/ \E response \in Responses :
             LET jsonMatch == JsonMatch(RawText(response)) IN
             IF jsonMatch = <<>> \/ ~IsJsonObject(jsonMatch)
             THEN /\ logged' = Append(logged, "Failed to analyze meal with AI:")
                  /\ aiEstimateError' = UnableMessage
                  /\ UNCHANGED mealForm
             ELSE /\ mealForm' =
                        [f \in MacroFields |->
                            WholeToString(sanitize(Property(jsonMatch, f)))]
                  /\ UNCHANGED <<logged, aiEstimateError>>
       \/ /\ logged' = Append(logged, "Failed to analyze meal with AI:")
          /\ aiEstimateError' = UnableMessage
          /\ UNCHANGED mealForm
    /\ isAnalyzingMeal' = FALSE
    /\ analyze' = [pc |-> "idle", requests |-> analyze.requests]
    /\ UNCHANGED <<selectedDate, storeVars, memoryVars, isLoading, isSaving, isSavingTemplate,
                   saveTemplateError, load, add, tpl, requests, clicks, lastClick,
                   isDeleting, dels>>
    /\ UNCHANGED <<pageVars, aiVars, libVars, queryVars>>

-----------------------------------------------------------------------------
(* ISO week number of the weekly trend labels *)

\* the Gregorian calendar: the day number of January 1st of a year, counted
\* from 2024-01-01
IsLeapYear(y) == y % 4 = 0 /\ (y % 100 # 0 \/ y % 400 = 0)

DaysInYear(y) == IF IsLeapYear(y) THEN 366 ELSE 365

RECURSIVE YearStart(_)
YearStart(y) ==
    IF y = 2024 THEN 0
    ELSE IF y > 2024 THEN YearStart(y - 1) + DaysInYear(y - 1)
    ELSE YearStart(y + 1) - DaysInYear(y)

\* the years the dates of the model fall in
Years == 2022 .. 2026

\* Date.prototype.getFullYear()
getFullYear(t) ==
    CHOOSE y \in Years : YearStart(y) <= LocalDay(t) /\ LocalDay(t) < YearStart(y + 1)

\* new Date(year, 0, day): local midnight of that day of January
NewDateInJanuary(year, day) == 24 * (YearStart(year) + day - 1) - tz

\* (a.getTime() - b.getTime()) / 86400000, for two local midnights
DaysBetween(a, b) == (a - b) \div 24

getISOWeekNumber_FromJanuaryFirst(date) ==
    LET tempDate == LocalMidnight(date)
        week1 == NewDateInJanuary(getFullYear(tempDate), 1)
    IN  1 + DaysBetween(tempDate, week1) \div 7

getISOWeekNumber(date) ==
    LET tempDate == AddDays(LocalMidnight(date), 3 - ((getDay(LocalMidnight(date)) + 6) % 7))
        week1 == NewDateInJanuary(getFullYear(tempDate), 4)
    IN  1 + RoundDiv(DaysBetween(tempDate, week1) - 3 + ((getDay(week1) + 6) % 7), 7)

-----------------------------------------------------------------------------
(* Specifications *)

\* no function is being called on its own
NoValue == [none |-> TRUE]

LibOff == input = NoValue /\ output = NoValue

Init == InitPage(LoadedRows, TodayDays) /\ AIOff /\ DiaryOff /\ LibOff

InitStreak == InitPage(LoadedRows \cup LoadedRuns, TodayDays) /\ AIOff /\ DiaryOff /\ LibOff

InitSummary == InitPage(LoadedRows, TodayDays) /\ InitAI /\ DiaryOff /\ LibOff

InitFoodDiary == InitPage({<<>>}, DiaryDays) /\ AIOff /\ InitDiary /\ LibOff

\* the days the grid is opened on: a Wednesday and a Sunday
GridDays == {16, 20}

InitGrid == InitPage(LoadedRows, GridDays) /\ AIOff /\ DiaryOff /\ LibOff

\* the dates the week range is computed for: Saturday 2024-01-13 .. Monday
\* 2024-01-22, at the first, a middle and the last hour of the local day, at
\* the first and the last millisecond of the hour
RangeDays == 13 .. 21
RangeHours == {0, 12, 23}
RangeMillis == {0, 3599999}

InitWeekRange ==
    /\ InitPage({<<>>}, DiaryDays) /\ AIOff /\ DiaryOff
    /\ input \in {Instant(24 * d + h - tz, ms) :
                     d \in RangeDays, h \in RangeHours, ms \in RangeMillis}
    /\ output = NoValue

Returned(op, value) == [op |-> op, value |-> value]

CallStartOfMonday ==
    /\ output' = Returned("startOfMonday", startOfMonday(input))
    /\ UNCHANGED <<input, pageVars, aiVars, diaryVars>>

CallEndOfSunday ==
    /\ output' = Returned("endOfSunday", endOfSunday(input))
    /\ UNCHANGED <<input, pageVars, aiVars, diaryVars>>

NextWeekRange == CallStartOfMonday \/ CallEndOfSunday

\* the dates a week number is computed for: the two weeks around each of
\* the new years 2023, 2024, 2025 and 2026, at the first and the last hour of
\* the local day
WeekNumberDays ==
    UNION {YearStart(y) - 10 .. YearStart(y) + 10 : y \in 2023 .. 2026}
WeekNumberHours == {0, 23}

InitWeekNumber ==
    /\ InitPage({<<>>}, DiaryDays) /\ AIOff /\ DiaryOff
    /\ input \in {24 * d + h - tz : d \in WeekNumberDays, h \in WeekNumberHours}
    /\ output = NoValue

CallGetISOWeekNumber ==
    /\ output = NoValue
    /\ output' = Returned("getISOWeekNumber", getISOWeekNumber(input))
    /\ UNCHANGED <<input, pageVars, aiVars, diaryVars>>

NextWeekNumber == CallGetISOWeekNumber

\* the texts typed into a time field: up to MaxTimeLen characters, each a
\* digit, a colon, a dot or a letter
MaxTimeLen == 5
TimeChars == {"0", "2", "7", ":", ".", "x"}

TimeInputs == UNION {[1 .. n -> TimeChars] : n \in 0 .. MaxTimeLen}

InitTimeInput ==
    /\ InitPage({<<>>}, DiaryDays) /\ AIOff /\ DiaryOff
    /\ tz = 0
    /\ input \in TimeInputs
    /\ output = NoValue

CallNormalizeTimeInput ==
    /\ output = NoValue
    /\ output' = Returned("normalizeTimeInput", normalizeTimeInput(input))
    /\ UNCHANGED <<input, pageVars, aiVars, diaryVars>>

NextTimeInput == CallNormalizeTimeInput

\* a read operation is called, and the store answers its select
InitStoreReads ==
    /\ InitPage({<<>>}, DiaryDays) /\ AIOff /\ DiaryOff
    /\ tz = 0
    /\ \E table \in ReadTables :
          input \in {[table |-> table, response |-> r] : r \in StoreResponses(table)}
    /\ output = NoValue

CallGetMealsForRange ==
    /\ output = NoValue
    /\ input.table = "meals"
    /\ output' = Returned("getMealsForRange", getMealsForRange(input.response))
    /\ UNCHANGED <<input, pageVars, aiVars, diaryVars>>

CallGetDailyTotalsForRange ==
    /\ output = NoValue
    /\ input.table = "meal_daily_totals"
    /\ output' = Returned("getDailyTotalsForRange", getDailyTotalsForRange(input.response))
    /\ UNCHANGED <<input, pageVars, aiVars, diaryVars>>

CallGetSavedMeals ==
    /\ output = NoValue
    /\ input.table = "saved_meals"
    /\ output' = Returned("getSavedMeals", getSavedMeals(input.response))
    /\ UNCHANGED <<input, pageVars, aiVars, diaryVars>>

CallGetUserPreferences ==
    /\ output = NoValue
    /\ input.table = "user_preferences"
    /\ output' = Returned("getUserPreferences", getUserPreferences(input.response))
    /\ UNCHANGED <<input, pageVars, aiVars, diaryVars>>

NextStoreReads ==
    \/ CallGetMealsForRange
    \/ CallGetDailyTotalsForRange
    \/ CallGetSavedMeals
    \/ CallGetUserPreferences

InitMealActions == InitPage({<<>>}, DiaryDays) /\ AIOff /\ InitDiary /\ LibOff

NextMealActions ==
    \/ LoadGetMealsReturns
    \/ LoadGetTotalsReturns
    \/ AddMeal
    \/ AddUpsertReturns
    \/ AddGetMealsReturns
    \/ AddGetTotalsReturns
    \/ DeleteMeal
    \/ DeleteMealReturns
    \/ DeleteGetMealsReturns
    \/ DeleteGetTotalsReturns

\* the diary is mounted, with or without the credential
InitEstimate ==
    /\ InitPage({<<>>}, DiaryDays)
    /\ apiKey \in BOOLEAN
    /\ aiAnalysis = EmptyText /\ isGeneratingAnalysis = FALSE
    /\ weekCompleted = FALSE /\ gen = GenIdle
    /\ InitDiary /\ LibOff

NextEstimate ==
    \/ LoadGetMealsReturns
    \/ LoadGetTotalsReturns
    \/ EditMacroField
    \/ AnalyzeMeal
    \/ AnalyzeReturns

\* two rows have been loaded, and the save effect is about to run for them
InitSave ==
    /\ InitPage({RowsOf(<<<<14>>, <<>>>>)}, DiaryDays) /\ tz = 0
    /\ AIOff /\ DiaryOff /\ LibOff

\* user events and responses are handled once the pending effect has run
NextSave ==
    \/ SaveEffect
    \/ UpsertReturns
    \/ ~EffectPending /\ Toggle
    \/ ~EffectPending /\ addNewActivityRow
    \/ ~EffectPending /\ deleteActivityRow
    \/ ~EffectPending /\ DeleteReturns
    \/ ~EffectPending /\ LoadRowsReturns

NextDiaryDates ==
    \/ LoadGetMealsReturns
    \/ LoadGetTotalsReturns
    \/ SelectDate
    \/ DeleteMeal
    \/ DeleteMealReturns
    \/ DeleteGetMealsReturns
    \/ DeleteGetTotalsReturns

Next == Toggle \/ addNewActivityRow

NextGrid ==
    \/ Toggle
    \/ addNewActivityRow
    \/ MoveUp
    \/ MoveDown
    \/ deleteActivityRow
    \/ DeleteReturns
    \/ LoadRowsReturns

NextSummary ==
    \/ completeWeek
    \/ GenerateContentReturns
    \/ GenerateContentThrows
    \/ CacheUpsertReturns

NextFoodDiary ==
    \/ LoadGetMealsReturns
    \/ LoadGetTotalsReturns
    \/ AddMeal
    \/ AddUpsertReturns
    \/ AddGetMealsReturns
    \/ AddGetTotalsReturns
    \/ SaveAsTemplate
    \/ TemplateWriteReturns
    \/ TemplateGetSavedReturns

Spec == Init /\ [][Next]_vars

SpecStreak == InitStreak /\ [][Next]_vars

SpecGrid == InitGrid /\ [][NextGrid]_vars

SpecSave == InitSave /\ [][NextSave]_vars

\* the pending effect runs, and the store answers every request
SpecSaveFair ==
    /\ SpecSave
    /\ WF_vars(SaveEffect)
    /\ WF_vars(UpsertReturns)
    /\ WF_vars(~EffectPending /\ DeleteReturns)
    /\ WF_vars(~EffectPending /\ LoadRowsReturns)

SpecDiaryDates == InitMealActions /\ [][NextDiaryDates]_vars

SpecEstimate == InitEstimate /\ [][NextEstimate]_vars

SpecMealActions == InitMealActions /\ [][NextMealActions]_vars

SpecStoreReads == InitStoreReads /\ [][NextStoreReads]_vars

SpecTimeInput == InitTimeInput /\ [][NextTimeInput]_vars

SpecWeekNumber == InitWeekNumber /\ [][NextWeekNumber]_vars

SpecWeekRange == InitWeekRange /\ [][NextWeekRange]_vars

SpecSummary == InitSummary /\ [][NextSummary]_vars

SpecFoodDiary == InitFoodDiary /\ [][NextFoodDiary]_vars

-----------------------------------------------------------------------------
(* Claims about the analytics of the activity page *)

\* today's date key
TodayKey == formatDateKey(now)

\* some row has a completion on calendar day d
CompletedOn(d) ==
    \E r \in DOMAIN activityRows : Includes(activityRows[r].completedDays, d)

\* the set of (row, position) pairs of the completion records
CompletionRecords ==
    UNION {{<<r, i>> : i \in DOMAIN activityRows[r].completedDays} : r \in DOMAIN activityRows}

\* the Monday on or before calendar day d (day 0 is a Monday)
MondayOf(d) == d - (d % 7)

\* C1: getCurrentStreak is 0 whenever no row has a completion on today's date
\* key, whatever was completed on earlier days.
C1_NoCompletionTodayIsZero ==
    ~CompletedOn(TodayKey) => getCurrentStreak(activityRows) = 0

\* no completion today, an unbroken run of ten days ending yesterday
C1_Witness ==
    /\ ~CompletedOn(TodayKey)
    /\ \A i \in 1 .. 10 : CompletedOn(TodayKey - i)
    /\ getCurrentStreak(activityRows) = 0

\* C2: with a completion today, getCurrentStreak is the number of consecutive
\* days ending today that each have a completion, stopping at the first day
\* without one, and at most 365.
C2_StreakIsRunEndingToday ==
    CompletedOn(TodayKey) =>
        LET streak == getCurrentStreak(activityRows) IN
        /\ streak \in 1 .. 365
        /\ \A i \in 0 .. streak - 1 : CompletedOn(TodayKey - i)
        /\ streak < 365 => ~CompletedOn(TodayKey - streak)

\* a run of more than 365 days ending today: the walk stops at 365
C2_Witness ==
    /\ \A i \in 0 .. 365 : CompletedOn(TodayKey - i)
    /\ getCurrentStreak(activityRows) = 365

\* a run of three days ending today with a gap before it
C2_WitnessGap ==
    /\ \A i \in 0 .. 2 : CompletedOn(TodayKey - i)
    /\ ~CompletedOn(TodayKey - 3)
    /\ getCurrentStreak(activityRows) = 3

\* the weeks (keys of their Mondays) that hold a completion record
WeeksWithRecords ==
    {MondayOf(activityRows[rec[1]].completedDays[rec[2]]) : rec \in CompletionRecords}

RecordsInWeek(week) ==
    {rec \in CompletionRecords :
        MondayOf(activityRows[rec[1]].completedDays[rec[2]]) = week}

\* C3: getWeeklyTrendData has exactly one point per Monday-start week that
\* holds a completion record, none for an empty week, the points ascending by
\* week key, each count the number of records dated in that week.
C3_OnePointPerWeekWithRecords ==
    LET trend == getWeeklyTrendData(activityRows) IN
    /\ {trend[p].week : p \in DOMAIN trend} = WeeksWithRecords
    /\ Len(trend) = Cardinality(WeeksWithRecords)
    /\ \A p, q \in DOMAIN trend : p < q => trend[p].week < trend[q].week
    /\ \A p \in DOMAIN trend : trend[p].count = Cardinality(RecordsInWeek(trend[p].week))

\* C4: the change from last week is the count of the last point of the trend
\* series minus the count of the point before it in the series, whatever the
\* number of empty weeks between them; with fewer than two points it is the
\* no-data sentinel.
C4_ChangeComparesLastTwoPoints ==
    LET trend == getWeeklyTrendData(activityRows)
        change == ChangeFromLastWeek(activityRows)
        weeks == {trend[p].week : p \in DOMAIN trend}
        CountOf(week) == (CHOOSE p \in DOMAIN trend : trend[p].week = week)
        Latest(S) == CHOOSE w \in S : \A v \in S : v <= w
    IN  IF Cardinality(weeks) < 2
        THEN change.sentinel
        ELSE /\ ~change.sentinel
             /\ change.diff = trend[CountOf(Latest(weeks))].count
                              - trend[CountOf(Latest(weeks \ {Latest(weeks)}))].count

\* the last two points are more than a week apart and their counts differ
C4_Witness ==
    LET trend == getWeeklyTrendData(activityRows) IN
    /\ Len(trend) >= 2
    /\ trend[Len(trend)].week - trend[Len(trend) - 1].week > 7
    /\ ChangeFromLastWeek(activityRows).diff # 0

\* C5: getAverageActivitiesPerWeek is the total number of completions divided
\* by the number of points of the trend series, rounded to one decimal; it is 0
\* for an empty series.  (The average is held in tenths.)
C5_AverageIsTotalOverPoints ==
    LET points == Len(getWeeklyTrendData(activityRows))
        total == getTotalActivities(activityRows)
        tenths == getAverageActivitiesPerWeek(activityRows)
    IN  IF points = 0 THEN tenths = 0
        ELSE /\ 2 * points * tenths <= 20 * total + points
             /\ 20 * total + points < 2 * points * (tenths + 1)

\* two points with an empty week between them and an average that is no whole number
C5_Witness ==
    LET trend == getWeeklyTrendData(activityRows) IN
    /\ Len(trend) = 2
    /\ trend[2].week - trend[1].week > 7
    /\ getAverageActivitiesPerWeek(activityRows) % 10 # 0

-----------------------------------------------------------------------------
(* Claims about the weekly summary *)

\* the completions held by the rows the call of generateAIAnalysis works on
GenRecords ==
    UNION {{<<r, i>> : i \in DOMAIN gen.rows[r].completedDays} : r \in DOMAIN gen.rows}

\* the days of the displayed week on which some of those rows is completed
GenActiveDays ==
    {d \in {formatDateKey(currentWeek[i]) : i \in DOMAIN currentWeek} :
        \E rec \in GenRecords : gen.rows[rec[1]].completedDays[rec[2]] = d}

\* the numbers printed in a text, in order
NumbersIn(text) ==
    LET nums == SelectSeq(text, LAMBDA piece : piece.kind # "lit")
    IN  [i \in DOMAIN nums |-> nums[i].n]

\* the numbers a local summary may print: total, active days and, when there
\* is a streak, the streak
LocalNumbers ==
    LET streak == getCurrentStreak(gen.rows) IN
    <<Cardinality(GenRecords), Cardinality(GenActiveDays)>>
    \o (IF streak > 0 THEN <<streak>> ELSE <<>>)

\* C9: when the AI call throws, generateAIAnalysis still sets a summary: the
\* text is not empty, the only numbers in it are the locally computed total,
\* active-day count and (if positive) streak, the total is printed in it, the
\* promise of generateAIAnalysis is fulfilled rather than rejected, and
\* isGeneratingAnalysis is false again.
C9_ThrowGivesLocalFallback ==
    (gen.pc = "done" /\ gen.outcome = "threw") =>
        /\ aiAnalysis # EmptyText
        /\ NumbersIn(aiAnalysis) = LocalNumbers
        /\ \E i \in DOMAIN aiAnalysis : aiAnalysis[i] = Num(Cardinality(GenRecords))
        /\ gen.promise = "fulfilled"
        /\ isGeneratingAnalysis = FALSE

\* the AI call threw for rows that hold completions, some in the displayed
\* week, with a streak running
C9_Witness ==
    /\ gen.pc = "done"
    /\ gen.outcome = "threw"
    /\ Cardinality(GenRecords) = 2
    /\ Cardinality(GenActiveDays) = 1
    /\ getCurrentStreak(gen.rows) = 1
    /\ aiAnalysis = CatchFallback(gen.rows)

\* the text is one of the two local fallbacks for the rows of the call
IsLocalFallback(text) ==
    text \in {NoKeyFallback(gen.rows), CatchFallback(gen.rows)}

\* C10: in every failure case of the weekly summary (no credential, the AI
\* call throws, the response has no text) generateAIAnalysis leaves the local
\* fallback as the analysis, and the analysis is never empty once it is done.
C10_EveryFailureGivesFallback ==
    gen.pc = "done" =>
        /\ aiAnalysis # EmptyText
        /\ gen.outcome \in {"nokey", "threw", "notext"} => IsLocalFallback(aiAnalysis)

-----------------------------------------------------------------------------
(* Claims about the food diary *)

\* the local calendar day of the i-th meal in memory
MealDay(i) == LocalDay(meals[i].meal_time)

\* the days for which meals are in memory
MealDays == {MealDay(i) : i \in DOMAIN meals}

\* the date key under which the i-th total of the store is filed
StoredKey(i) == LocalDay(24 * dailyTotals[i].meal_day)

RECURSIVE SumOfMeals(_, _)
SumOfMeals(indices, field) ==
    IF indices = {} THEN 0
    ELSE LET i == CHOOSE j \in indices : TRUE
         IN  meals[i][field] + SumOfMeals(indices \ {i}, field)

\* C6: for every day with meals in memory the merged totals are the sums of
\* calories, protein, carbs and fats over those meals, whatever total the store
\* returned for that date key; a total of the store is used only for a day
\* without a meal in memory.
C6_ComputedTotalsOverrideStoredOnes ==
    LET merged == totalsByDay IN
    /\ MealDays \subseteq DOMAIN merged
    /\ \A d \in MealDays :
          LET onDay == {i \in DOMAIN meals : MealDay(i) = d} IN
          /\ merged[d].total_calories = SumOfMeals(onDay, "calories")
          /\ merged[d].total_protein = SumOfMeals(onDay, "protein")
          /\ merged[d].total_carbs = SumOfMeals(onDay, "carbs")
          /\ merged[d].total_fats = SumOfMeals(onDay, "fats")
    /\ \A d \in DOMAIN merged \ MealDays :
          \E i \in DOMAIN dailyTotals : StoredKey(i) = d /\ merged[d] = dailyTotals[i]

\* two meals of one day sum to 650 calories, the store returned 500 for that
\* day, and the store also returned a total for a day without a meal
C6_Witness ==
    /\ \E d \in MealDays :
          /\ Cardinality({i \in DOMAIN meals : MealDay(i) = d}) = 2
          /\ \E i \in DOMAIN dailyTotals :
                StoredKey(i) = d /\ dailyTotals[i].total_calories = 500
          /\ totalsByDay[d].total_calories = 650
    /\ \E i \in DOMAIN dailyTotals :
          StoredKey(i) \notin MealDays /\ totalsByDay[StoredKey(i)] = dailyTotals[i]

\* what the user entered in a field
Entered(str) ==
    CASE str = <<>> -> "blank"
      [] str = <<"1", "2", ".", "7">> -> "number"
      [] str = <<"1", "2", ",", "4">> -> "number"
      [] str = <<"-", "5">> -> "negative"
      [] str = <<"a", "b", "c">> -> "non-numeric"
      [] str = <<"I", "n", "f", "i", "n", "i", "t", "y">> -> "non-finite"

\* the entered number in tenths; -1 when no number, or a negative one, is entered
EnteredTenths(str) ==
    CASE str = <<>> -> 0
      [] str = <<"1", "2", ".", "7">> -> 127
      [] str = <<"1", "2", ",", "4">> -> 124
      [] OTHER -> -1

\* one of the four numbers is negative, non-numeric or non-finite, or calories
\* is empty
MacrosInvalid(form) ==
    \/ Entered(form.calories) # "number"
    \/ \E f \in {"protein", "carbs", "fats"} : Entered(form[f]) \notin {"number", "blank"}

\* C7: a click on "Add meal" or "Save as template" with a negative,
\* non-numeric or non-finite number in the form, or with empty calories,
\* sends no request to the store and leaves the tables and the meals,
\* dailyTotals and savedMeals in memory as they were: a step that changes any
\* of these is not such a click.
C7_InvalidMacrosSendNothing ==
    [][\/ UNCHANGED <<requests, storeVars, memoryVars>>
       \/ \A form \in Forms :
             MacrosInvalid(form) => ~(ClickAddMeal(form) \/ ClickSaveAsTemplate(form))]_vars

\* handleAddMeal ran on a form with a name and calories and returned at one
\* of its checks; nothing was sent
C7_Witness ==
    /\ lastClick = [handler |-> "handleAddMeal", outcome |-> "rejected"]
    /\ requests = <<>>
    /\ add = Idle
    /\ meals # <<>>

\* handleSaveAsTemplate returned at its check of the protein field
C7_WitnessTemplate ==
    /\ lastClick = [handler |-> "handleSaveAsTemplate", outcome |-> "rejected"]
    /\ saveTemplateError = "Valid protein value is required"
    /\ requests = <<>>
    /\ tpl = Idle

\* C8: in every payload sent to the store calories, protein, carbs and fats
\* are non-negative whole numbers, each the entered number rounded to the
\* nearest integer (12.7 is sent as 13), and no row of the table holds a
\* negative number.
C8_PayloadsAreRoundedEntries ==
    /\ \A i \in DOMAIN requests : \A f \in MacroFields :
          LET sent == requests[i].payload[f]
              entered == EnteredTenths(requests[i].form[f])
          IN  /\ sent.kind = "num" /\ sent.scale = 0 /\ ~sent.neg
              /\ entered >= 0
              /\ 10 * sent.mant - entered <= 5
              /\ entered - 10 * sent.mant <= 5
    /\ \A m \in storeMeals \cup storeSaved : \A f \in MacroFields : m[f] >= 0

\* 12.7 calories and 12,4 grams of protein were entered; the payload of the
\* upsert carries 13 and 12, and so does the row in the table
C8_Witness ==
    \E i \in DOMAIN requests :
        /\ requests[i].op = "upsertMeal"
        /\ requests[i].form.calories = <<"1", "2", ".", "7">>
        /\ requests[i].form.protein = <<"1", "2", ",", "4">>
        /\ requests[i].payload.calories = Finite(FALSE, 13, 0)
        /\ requests[i].payload.protein = Finite(FALSE, 12, 0)
        /\ \E m \in storeMeals : m.calories = 13 /\ m.protein = 12

-----------------------------------------------------------------------------
(* Claims about the operations of the activity grid *)

\* the set of the date keys a row is completed on
DaysOf(row) == {row.completedDays[i] : i \in DOMAIN row.completedDays}

\* the dates a toggle may be given: the displayed ones, and noon of the days
\* the loaded rows may hold
ToggleDates ==
    {currentWeek[i] : i \in DOMAIN currentWeek} \cup {24 * h + 12 - tz : h \in HistoryDays}

\* C11: for every row and date, toggleActivityCompletion applied twice with
\* the same (rowId, date) gives the row the set of completed days it had, and
\* leaves every other row as it was; applied once it changes whether the date
\* is in the set.
C11_ToggleTwiceIsNoOp ==
    \A r \in DOMAIN activityRows : \A date \in ToggleDates :
        LET rowId == activityRows[r].id
            once == toggleActivityCompletion(activityRows, rowId, date)
            twice == toggleActivityCompletion(once, rowId, date)
        IN  /\ DOMAIN twice = DOMAIN activityRows
            /\ DaysOf(twice[r]) = DaysOf(activityRows[r])
            /\ twice[r].id = rowId
            /\ (formatDateKey(date) \in DaysOf(once[r]))
                  # (formatDateKey(date) \in DaysOf(activityRows[r]))
            /\ \A q \in DOMAIN activityRows : q # r => twice[q] = activityRows[q]

\* after two edits there are two rows, one completed on a displayed date and
\* one not: both directions of the round trip are taken, next to another row
C11_Witness ==
    /\ edits = 2
    /\ Len(activityRows) = 2
    /\ \E i \in DOMAIN currentWeek :
          /\ formatDateKey(currentWeek[i]) \in DaysOf(activityRows[1])
          /\ formatDateKey(currentWeek[i]) \notin DaysOf(activityRows[2])
    /\ activityRows[2].completedDays # <<>>

\* C12: no row holds a date key twice, after any sequence of toggles,
\* additions, moves and deletions that starts from rows without a repeated
\* key; so the total counts each (row, date) pair once.
C12_NoRepeatedDateKey ==
    /\ \A r \in DOMAIN activityRows : NoRepeat(activityRows[r].completedDays)
    /\ getTotalActivities(activityRows)
          = Cardinality(UNION {{<<r, d>> : d \in DaysOf(activityRows[r])} :
                                  r \in DOMAIN activityRows})

\* three edits were made, the last row of two was added and is completed on
\* a day, and a row loaded before it holds two days
C12_Witness ==
    /\ edits = MaxEdits
    /\ Len(activityRows) = 2
    /\ activityRows[2].id >= nextRowId - 1
    /\ Len(activityRows[2].completedDays) = 1
    /\ Len(activityRows[1].completedDays) = 2

\* rows is `before` with the rows at positions i and j exchanged
Swapped(before, after, i, j) ==
    /\ Len(after) = Len(before)
    /\ after[i] = before[j]
    /\ after[j] = before[i]
    /\ \A k \in DOMAIN before : k \notin {i, j} => after[k] = before[k]

\* C17: moveRowUp exchanges the row at position i > 1 with the one before it
\* and moveRowDown the row at position i < n with the one after it, all other
\* positions staying as they are; on the first row (up), the last row (down)
\* or an id no row has (nextRowId is one) the rows stay as they are; the result always holds the
\* same rows, with their contents.
C17_MovesSwapNeighbours ==
    /\ \A i \in DOMAIN activityRows :
          LET rowId == activityRows[i].id
              up == moveRowUp(activityRows, rowId)
              down == moveRowDown(activityRows, rowId)
          IN  /\ IF i > 1 THEN Swapped(activityRows, up, i, i - 1)
                          ELSE up = activityRows
              /\ IF i < Len(activityRows) THEN Swapped(activityRows, down, i, i + 1)
                                          ELSE down = activityRows
              /\ {up[k] : k \in DOMAIN up} = {activityRows[k] : k \in DOMAIN activityRows}
              /\ {down[k] : k \in DOMAIN down} = {activityRows[k] : k \in DOMAIN activityRows}
    /\ moveRowUp(activityRows, nextRowId) = activityRows
    /\ moveRowDown(activityRows, nextRowId) = activityRows

\* a row added after the loaded one has been moved above it
C17_Witness ==
    /\ Len(activityRows) = 2
    /\ activityRows[1].id > activityRows[2].id
    /\ activityRows[2].completedDays # <<>>
    /\ edits = 2

\* the call of `op` has returned
Called(op) == output # NoValue /\ output.op = op

\* the milliseconds from instant a to instant b
Elapsed(a, b) == (b.hour - a.hour) * 3600000 + (b.ms - a.ms)

C14_CurrentWeekHoldsToday ==
    /\ Len(currentWeek) = 7
    /\ \A i \in 1 .. 6 : currentWeek[i + 1] = AddDays(currentWeek[i], 1)
    /\ getDay(currentWeek[1]) = 1
    /\ LocalDay(currentWeek[1]) <= LocalDay(now)
    /\ \E i \in DOMAIN currentWeek : LocalDay(currentWeek[i]) = LocalDay(now)

\* the ISO-8601 week number of a local day: a week belongs to the year its
\* Thursday is in, and is numbered by the Thursdays of that year
IsoWeekOfDay(day) ==
    LET thursday == MondayOf(day) + 3
        year == CHOOSE y \in Years : YearStart(y) <= thursday /\ thursday < YearStart(y + 1)
    IN  (thursday - YearStart(year)) \div 7 + 1

\* C15: getISOWeekNumber returns the ISO-8601 week number: a number in
\* 1 .. 53, the same for the seven days Monday .. Sunday of a week, 1 exactly
\* for the week that holds a January 4th; 1 for 2024-01-01, 52 for 2023-01-01
\* and 1 for 2024-12-31.
C15_ISOWeekNumber ==
    Called("getISOWeekNumber") =>
        LET week == output.value
            monday == MondayOf(LocalDay(input))
        IN  /\ week \in 1 .. 53
            /\ week = IsoWeekOfDay(LocalDay(input))
            /\ \A k \in 0 .. 6 : getISOWeekNumber(24 * (monday + k) + 12 - tz) = week
            /\ week = 1 <=> \E y \in Years : YearStart(y) + 3 \in monday .. monday + 6
            /\ LocalDay(input) = YearStart(2024) => week = 1
            /\ LocalDay(input) = YearStart(2023) => week = 52
            /\ LocalDay(input) = YearStart(2025) - 1 => week = 1

\* the week number of Sunday 2023-01-01, which is in the last week of 2022,
\* has been computed
C15_Witness ==
    /\ Called("getISOWeekNumber")
    /\ LocalDay(input) = YearStart(2023)
    /\ getDay(input) = 0
    /\ output.value = 52

\* the week number of Tuesday 2024-12-31, which is in week 1 of 2025, has
\* been computed
C15_WitnessNewYearWeek ==
    /\ Called("getISOWeekNumber")
    /\ LocalDay(input) = YearStart(2025) - 1
    /\ output.value = 1

\* the text is HH:MM with HH in 00 .. 23 and MM in 00 .. 59
IsHHMM(str) ==
    /\ Len(str) = 5
    /\ str[3] = ":"
    /\ \A i \in {1, 2, 4, 5} : IsDigit(str[i])
    /\ 10 * DigitValue(str[1]) + DigitValue(str[2]) \in 0 .. 23
    /\ 10 * DigitValue(str[4]) + DigitValue(str[5]) \in 0 .. 59

\* C16: normalizeTimeInput returns a text HH:MM with HH in 00 .. 23 and MM in
\* 00 .. 59, 00:00 for an empty text and for one that holds no digit, and
\* returns its own result unchanged.
C16_NormalizedTimeIsHHMM ==
    Called("normalizeTimeInput") =>
        /\ IsHHMM(output.value)
        /\ SelectSeq(input, IsDigit) = <<>> =>
              output.value = <<"0", "0", ":", "0", "0">>
        /\ normalizeTimeInput(output.value) = output.value

\* 27:70 was typed: both parts are over their limits
C16_Witness ==
    /\ Called("normalizeTimeInput")
    /\ input = <<"2", "7", ":", "7", "0">>
    /\ output.value = <<"2", "3", ":", "5", "9">>

\* a read operation has returned
CalledRead ==
    output # NoValue /\ output.op \in {"getMealsForRange", "getDailyTotalsForRange",
                                       "getSavedMeals", "getUserPreferences"}

\* the store answered that the table is not provisioned: the table is
\* undefined (42P01), or is not in the schema cache (PGRST205)
NotProvisioned(response) ==
    /\ response.kind = "error"
    /\ Field(response.error, "code") \in {<<"42P01">>, <<"PGRST205">>}

\* the store answered with another error, or the request itself failed; the
\* answer that the user has no row is not counted as an error
OtherError(response) ==
    /\ response.kind \in {"error", "throws"}
    /\ ~NotProvisioned(response)
    /\ response.error # NoRowFound

\* C18: when the store reports that the table is not provisioned, every read
\* operation returns an empty result instead of failing.
C18_NotProvisionedReadsAsEmpty ==
    CalledRead /\ NotProvisioned(input.response) => output.value = Fulfilled(<<>>)

\* C19: a store error other than "not provisioned" is surfaced by every read
\* operation: its promise rejects, and so differs from the empty result
\* that the not-provisioned condition gives.
C19_OtherErrorsAreSurfaced ==
    CalledRead /\ OtherError(input.response) => output.value.kind = "rejected"

\* this step logs the failure `message`
Logs(message) ==
    Len(logged') = Len(logged) + 1 /\ logged'[Len(logged')] = message

\* C20: when a store call of handleAddMeal or handleDeleteMeal fails (the
\* write, the re-fetch of the meals or the re-fetch of the daily totals),
\* meals and dailyTotals both stay as they are, and isSaving, respectively
\* isDeleting, is idle again.
C20_FailedMealActionKeepsMemory ==
    [][/\ Logs("Failed to save meal:") =>
             /\ meals' = meals
             /\ dailyTotals' = dailyTotals
             /\ isSaving' = FALSE
       /\ Logs("Failed to delete meal:") =>
             /\ meals' = meals
             /\ dailyTotals' = dailyTotals
             /\ isDeleting' = NoId]_vars

\* a removal failed after its write: the store no longer holds a meal that
\* is still displayed
C20_Witness ==
    /\ logged # <<>>
    /\ logged[Len(logged)] = "Failed to delete meal:"
    /\ \E i \in DOMAIN meals : \A m \in storeMeals : m.id # meals[i].id
    /\ dailyTotals # <<>>
    /\ isDeleting = NoId
    /\ dels = <<>>

\* an addition failed after its write: the store holds a meal that is not
\* displayed
C20_WitnessAdd ==
    /\ logged # <<>>
    /\ logged[Len(logged)] = "Failed to save meal:"
    /\ \E m \in storeMeals : \A i \in DOMAIN meals : m.id # meals[i].id
    /\ ~isSaving
    /\ add = Idle

\* a select of loadActivityRows resolves with an error in this step: the
\* call set isLoadingFromDB, and only a select that resolves with rows
\* clears it
LoadFails ==
    selects' = selects - 1 /\ isLoadingFromDB /\ isLoadingFromDB'

\* C21: when the load of the activity rows fails, activityRows keep the value
\* they had before the load.
C21_FailedLoadKeepsRows ==
    [][LoadFails => activityRows' = activityRows]_vars

-----------------------------------------------------------------------------
(* C22: the macro estimate *)

\* a step of handleAnalyzeMeal that ends the handler
AnalyzeEnds == analyze'.pc = "idle" /\ (clicks' = clicks + 1 \/ analyze.pc = "generateContent")

\* the handler ended in failure: an error message is shown
AnalyzeFailed == AnalyzeEnds /\ aiEstimateError' # ""

\* a non-negative whole number, as String writes it
IsWholeNumberString(str) == str # <<>> /\ \A i \in DOMAIN str : IsDigit(str[i])

\* C22: without the credential the estimate fails with a 'not configured'
\* message and sends no request; every failure leaves the four macro fields
\* unchanged; isAnalyzingMeal is false when the handler ends; on success each
\* of the four fields holds a non-negative whole number.
C22_EstimateFailsClosed ==
    [][/\ (clicks' = clicks + 1 /\ ~apiKey) =>
              /\ aiEstimateError' = NotConfiguredMessage
              /\ analyze'.requests = analyze.requests
              /\ analyze'.pc = "idle"
       /\ AnalyzeFailed => mealForm' = mealForm
       /\ AnalyzeEnds => ~isAnalyzingMeal'
       /\ (AnalyzeEnds /\ ~AnalyzeFailed) =>
              \A f \in MacroFields : IsWholeNumberString(mealForm'[f])]_vars

\* an estimate whose values are negative, not finite, not numbers or absent
\* succeeded, and wrote zeros
C22_Witness ==
    /\ analyze.pc = "idle" /\ analyze.requests > 0
    /\ aiEstimateError = "" /\ ~isAnalyzingMeal
    /\ mealForm = [calories |-> <<"0">>, protein |-> <<"0">>,
                   carbs |-> <<"0">>, fats |-> <<"0">>]

-----------------------------------------------------------------------------
(* C23: writes of one row in flight *)

\* the writes of row id that the store has not answered yet
WritesInFlight(id) ==
    CopiesIn(id, upserts) + (IF id \in deletes THEN 1 ELSE 0)

\* C23: there are never two store writes for the same activity row id in
\* flight at once.
C23_OneWriteInFlightPerRow ==
    \A id \in BagToSet(upserts) \cup deletes : WritesInFlight(id) <= 1

-----------------------------------------------------------------------------
(* C28: a removed row stays removed *)

\* C28: a row the user removed, whose store delete succeeded, is never in the
\* store again.
C28_RemovedRowStaysRemoved ==
    \A id \in removed : id \notin storeRows

-----------------------------------------------------------------------------
(* C27: the load ends the loading state *)

\* C27: every call of loadActivityRows, successful or failed, eventually
\* leaves isLoadingFromDB false.
C27_LoadEndsLoading == (selects > 0) ~> ~isLoadingFromDB

-----------------------------------------------------------------------------
(* C24: late responses *)

\* C24: the response to the queries of an earlier date, save or removal never
\* replaces meals or dailyTotals that come from queries sent later.
C24_NewerQueryWins ==
    [][/\ shown'.meals >= shown.meals
       /\ shown'.dailyTotals >= shown.dailyTotals]_vars

-----------------------------------------------------------------------------
(* C25: the week a record is grouped under *)

\* the keys of the weeks under which getWeeklyTrendData pushed dateStr
WeeksHolding(dateStr) ==
    LET weekGroups == GroupByWeek(FlatMapDays(activityRows)) IN
    {weekGroups[g].week : g \in {i \in DOMAIN weekGroups :
        \E k \in DOMAIN weekGroups[i].dates : weekGroups[i].dates[k] = dateStr}}

\* C25: in every timezone, getWeeklyTrendData puts each completion record in
\* the week keyed by the Monday on or before the record's own calendar date.
C25_RecordGoesToItsOwnWeek ==
    \A rec \in CompletionRecords :
        LET dateStr == activityRows[rec[1]].completedDays[rec[2]] IN
        WeeksHolding(dateStr) = {MondayOf(dateStr)}

-----------------------------------------------------------------------------
(* C26: the daily trend and the merged totals agree *)

\* the store's totals in memory are of distinct days
DistinctStoreDays ==
    \A i, j \in DOMAIN dailyTotals :
        dailyTotals[i].meal_day = dailyTotals[j].meal_day => i = j

\* C26: when the store's totals are of distinct days, dailyTrend has exactly
\* one point for every day with a total of the store or a meal in memory, the
\* points are in strictly ascending order of date, and the macros of every
\* point are those of totalsByDay for its day.
C26_TrendAgreesWithTotals ==
    LET trend == dailyTrend
        merged == totalsByDay
    IN  DistinctStoreDays =>
           /\ {trend[p].date : p \in DOMAIN trend} = DOMAIN merged
           /\ Len(trend) = Cardinality(DOMAIN merged)
           /\ \A p, q \in DOMAIN trend : p < q => trend[p].date < trend[q].date
           /\ \A p \in DOMAIN trend :
                 /\ trend[p].calories = merged[trend[p].date].total_calories
                 /\ trend[p].protein = merged[trend[p].date].total_protein
                 /\ trend[p].carbs = merged[trend[p].date].total_carbs
                 /\ trend[p].fats = merged[trend[p].date].total_fats

\* a day has both a total of the store and meals in memory, whose sums differ
\* from that total, and another day has a total of the store only
C26_Witness ==
    /\ dailyTotals # <<>> /\ meals # <<>>
    /\ \E i \in DOMAIN dailyTotals :
          /\ StoredKey(i) \in MealDays
          /\ dailyTotals[i].total_calories # computedTotalsByDay[StoredKey(i)].total_calories
    /\ \E i \in DOMAIN dailyTotals : StoredKey(i) \notin MealDays
    /\ Len(dailyTrend) = 2

-----------------------------------------------------------------------------
(* C29: the days that can be toggled *)

\* the checkbox of the i-th displayed day is enabled
CanToggle(i) == ~(currentWeek[i] > now)

\* no checkbox of a day after today is enabled
FutureDaysAreDisabled ==
    \A i \in DOMAIN currentWeek :
        CanToggle(i) => formatDateKey(currentWeek[i]) <= formatDateKey(now)

\* C29: the toggle is disabled for every displayed day after today, so that no
\* toggle adds a date later than today to a row, and the checkbox of today can
\* be toggled.
C29_TodayAndPastCanBeToggled ==
    /\ FutureDaysAreDisabled
    /\ \E i \in DOMAIN currentWeek :
          formatDateKey(currentWeek[i]) = formatDateKey(now) /\ CanToggle(i)

-----------------------------------------------------------------------------
(* C30: saved meals have distinct names *)

\* C30: no two saved meals of the user have the same trimmed name.
C30_SavedMealNamesAreDistinct ==
    \A m, n \in storeSaved :
        Trim(m.meal_name) = Trim(n.meal_name) => m.id = n.id

====
